---- MODULE Spec2Model ----
(***************************************************************************)
(* GitQL: the query executor (gitql-engine/src/engine.rs) and the          *)
(* statement parser (gitql-parser/src/parser.rs) as state machines.        *)
(*                                                                         *)
(* SpecEngine : one call of evaluate(repos, query), one step per           *)
(*              execute_statement call, then the group reduction.          *)
(* SpecParser : one call of parse_gql(tokens, env), one step per turn of   *)
(*              the clause loop of parse_select_query.                     *)
(***************************************************************************)
EXTENDS Integers, Sequences, FiniteSets, TLC

\* ------------------------------------------------------------------ bounds
\* largest number of repositories handed to evaluate
MaxRepos == 2
\* largest number of groups a clause leaves in the accumulator
MaxGroups == 2
\* largest number of rows a clause leaves in one group
MaxRows == 2
\* largest number of pieces that follow the beginning of a token sequence
MaxFragments == 3
\* largest number of clauses that follow a statement over the tables
MaxClauses == 2
\* largest absolute value of a timestamp
MaxTimestamp == 2
\* largest absolute value of a number of days
MaxDays == 2
\* largest number of elements of an array
MaxElements == 2
\* largest number of alternatives of a Variant type
MaxAlternatives == 2

\* ------------------------------------------------------------- engine state
VARIABLES
    repos,                     \* repos.len(); repositories are 1..repos in list order
    statements_map,            \* keys of query.statements
    select_aggregations_only,  \* query.select_aggregations_only
    groups,                    \* the accumulator: a sequence of groups, a group is a sequence of rows
    e_pc,                      \* position inside evaluate: "start", "loop", "reduce", "done"
    gql_command,               \* index of the loop over GQL_COMMANDS_IN_ORDER
    repo_index,                \* index of the loop over repos inside the select arm
    executed,                  \* the calls of execute_statement made so far:
                               \* <<clause, repository, error returned ("" when Ok)>>
    eval_result                \* what evaluate returned

\* ------------------------------------------------------------- parser state
VARIABLES
    tokens,                    \* the tokens handed to parse_gql
    position,                  \* index of the next token (1-based)
    context,                   \* the ParserContext of parse_select_query
    env,                       \* the Environment
    statements,                \* the clause map of parse_select_query
    p_pc,                      \* position inside parse_gql: "start", "select_query", "finish", "done"
    query_result,              \* the local query_result of parse_gql
    returned                   \* what parse_gql returned

parser_vars == <<tokens, position, context, env, statements, p_pc, query_result, returned>>

\* ------------------------------------------------------------- value state
VARIABLES
    value_call,                \* the method called on a value or a type, with its arguments
    value_result               \* what the method returned

value_vars == <<value_call, value_result>>

engine_vars == <<repos, statements_map, select_aggregations_only, groups, e_pc,
                 gql_command, repo_index, executed, eval_result>>

vars == <<repos, statements_map, select_aggregations_only, groups, e_pc,
          gql_command, repo_index, executed, eval_result,
          tokens, position, context, env, statements, p_pc, query_result, returned,
          value_call, value_result>>

\* ------------------------------------------------------------ engine model
GQL_COMMANDS_IN_ORDER_limit_first ==
    <<"select", "where", "group", "aggregation", "having", "order", "limit", "offset">>

GQL_COMMANDS_IN_ORDER ==
    <<"select", "where", "group", "aggregation", "having", "order", "offset", "limit">>

ClauseKeys == {"select", "where", "group", "aggregation", "having", "order", "offset", "limit"}

\* error strings a clause execution may return
ExecutionErrors == {"error A", "error B"}

\* repos.last() in place of repos.first()
last_repo(n) == n

\* repos.first().unwrap(): the first repository; the unwrap of an empty list
\* is the panic taken in EvaluateStart
first_repo(n) == 1

\* A row is known to evaluate only by its place in its group: rows are
\* numbered 1..len in the order the clause left them.
GroupOfLen(n) == [i \in 1..n |-> i]

AllGroups == {GroupOfLen(n) : n \in 0..MaxRows}

SeqsOfLen(S, n) == [1..n -> S]

\* Every value of the accumulator a clause may leave behind.
AllGroupLists == UNION {SeqsOfLen(AllGroups, n) : n \in 0..MaxGroups}

\* execute_statement(statement, repo, &mut groups): either an error string,
\* or Ok with the accumulator rewritten in place.
ExecuteStatementOutcomes ==
    [ok : {FALSE}, error : ExecutionErrors, groups : {<<>>}]
      \cup [ok : {TRUE}, error : {""}, groups : AllGroupLists]

\* group.drain(1..) under `if group.len() > 1`, keeping the last row
ReduceGroupKeepLast(group) ==
    IF Len(group) > 1 THEN <<group[Len(group)]>> ELSE group

\* group.drain(1..) under `if group.len() > 1`
ReduceGroup(group) ==
    IF Len(group) > 1 THEN <<group[1]>> ELSE group

NoResult == [kind |-> "none", error |-> "", groups |-> <<>>]
OkResult(g) == [kind |-> "Ok", error |-> "", groups |-> g]
ErrResult(e) == [kind |-> "Err", error |-> e, groups |-> <<>>]
PanicResult == [kind |-> "panic", error |-> "", groups |-> <<>>]

\* the loop `for gql_command in GQL_COMMANDS_IN_ORDER` moves to its next
\* element, or falls through to the reduction after the last one
NextCommand ==
    IF gql_command < Len(GQL_COMMANDS_IN_ORDER)
    THEN /\ gql_command' = gql_command + 1
         /\ e_pc' = "loop"
    ELSE /\ gql_command' = gql_command
         /\ e_pc' = "reduce"

\* no method of a value is called
ValuesIdle ==
    /\ value_call = <<>>
    /\ value_result = <<>>

\* no parse is going on
ParserIdle ==
    /\ tokens = <<>>
    /\ position = 1
    /\ context = <<>>
    /\ env = <<>>
    /\ statements = <<>>
    /\ p_pc = "idle"
    /\ query_result = <<>>
    /\ returned = <<>>

InitEngine ==
    /\ repos \in 0..MaxRepos
    /\ statements_map \in SUBSET ClauseKeys
    /\ select_aggregations_only \in BOOLEAN
    /\ groups = <<>>
    /\ e_pc = "start"
    /\ gql_command = 1
    /\ repo_index = 1
    /\ executed = <<>>
    /\ eval_result = NoResult
    /\ ParserIdle
    /\ ValuesIdle

\* the accumulator is created with one empty group
EvaluateStart_one_group ==
    /\ UNCHANGED <<parser_vars, value_vars>>
    /\ e_pc = "start"
    /\ groups' = <<<<>>>>
    /\ IF repos = 0
       THEN /\ e_pc' = "done"
            /\ eval_result' = PanicResult
       ELSE /\ e_pc' = "loop"
            /\ eval_result' = eval_result
    /\ UNCHANGED <<repos, statements_map, select_aggregations_only,
                   gql_command, repo_index, executed>>

\* the first repository is looked up without unwrap: an empty list goes on
\* to the loop
EvaluateStart_without_unwrap ==
    /\ UNCHANGED <<parser_vars, value_vars>>
    /\ e_pc = "start"
    /\ e_pc' = "loop"
    /\ eval_result' = eval_result
    /\ UNCHANGED <<repos, statements_map, select_aggregations_only, groups,
                   gql_command, repo_index, executed>>

\* lines 26-28: the accumulator is created and the first repository looked up
EvaluateStart ==
    /\ UNCHANGED <<parser_vars, value_vars>>
    /\ e_pc = "start"
    /\ IF repos = 0
       THEN /\ e_pc' = "done"
            /\ eval_result' = PanicResult
       ELSE /\ e_pc' = "loop"
            /\ eval_result' = eval_result
    /\ UNCHANGED <<repos, statements_map, select_aggregations_only, groups,
                   gql_command, repo_index, executed>>

\* line 31: the clause is not in the map
SkipCommand ==
    /\ UNCHANGED <<parser_vars, value_vars>>
    /\ e_pc = "loop"
    /\ GQL_COMMANDS_IN_ORDER[gql_command] \notin statements_map
    /\ NextCommand
    /\ UNCHANGED <<repos, statements_map, select_aggregations_only, groups,
                   repo_index, executed, eval_result>>

\* the error of the call is dropped and the loop goes on with the next clause
ReturnErrSwallowed(outcome) ==
    /\ eval_result' = eval_result
    /\ UNCHANGED <<groups, repo_index>>
    /\ NextCommand

\* the early return of lines 38-40 and 46-48
ReturnErr(outcome) ==
    /\ eval_result' = ErrResult(outcome.error)
    /\ e_pc' = "done"
    /\ UNCHANGED <<groups, gql_command, repo_index>>

\* lines 34-42: one iteration of `for repo in repos`
ExecuteSelect ==
    /\ UNCHANGED <<parser_vars, value_vars>>
    /\ e_pc = "loop"
    /\ GQL_COMMANDS_IN_ORDER[gql_command] \in statements_map
    /\ GQL_COMMANDS_IN_ORDER[gql_command] = "select"
    /\ repo_index <= repos
    /\ \E outcome \in ExecuteStatementOutcomes :
         /\ executed' = Append(executed,
                <<GQL_COMMANDS_IN_ORDER[gql_command], repo_index, outcome.error>>)
         /\ IF ~outcome.ok
            THEN ReturnErr(outcome)
            ELSE /\ groups' = outcome.groups
                 /\ eval_result' = eval_result
                 /\ IF repo_index < repos
                    THEN /\ repo_index' = repo_index + 1
                         /\ UNCHANGED <<gql_command, e_pc>>
                    ELSE /\ repo_index' = repo_index
                         /\ NextCommand
    /\ UNCHANGED <<repos, statements_map, select_aggregations_only>>

\* lines 43-49: any other clause, against the first repository
ExecuteOther ==
    /\ UNCHANGED <<parser_vars, value_vars>>
    /\ e_pc = "loop"
    /\ GQL_COMMANDS_IN_ORDER[gql_command] \in statements_map
    /\ GQL_COMMANDS_IN_ORDER[gql_command] # "select"
    /\ \E outcome \in ExecuteStatementOutcomes :
         /\ executed' = Append(executed,
                <<GQL_COMMANDS_IN_ORDER[gql_command], first_repo(repos), outcome.error>>)
         /\ IF ~outcome.ok
            THEN ReturnErr(outcome)
            ELSE /\ groups' = outcome.groups
                 /\ eval_result' = eval_result
                 /\ repo_index' = repo_index
                 /\ NextCommand
    /\ UNCHANGED <<repos, statements_map, select_aggregations_only>>

\* lines 54-75: the group reduction and the return.  The reduced vector is
\* the one handed to the caller (eval_result.groups); `groups` keeps what the
\* clauses left, so that the two can be compared.
ReduceAndReturn ==
    /\ UNCHANGED <<parser_vars, value_vars>>
    /\ e_pc = "reduce"
    /\ e_pc' = "done"
    /\ IF Len(groups) > 1
       THEN eval_result' = OkResult([i \in 1..Len(groups) |-> ReduceGroup(groups[i])])
       ELSE IF Len(groups) = 1 /\ select_aggregations_only
       THEN IF 1 > Len(groups[1])
            THEN \* Vec::drain(1..) panics when the range start is past the length
                 eval_result' = PanicResult
            ELSE eval_result' = OkResult(<<SubSeq(groups[1], 1, 1)>>)
       ELSE eval_result' = OkResult(groups)
    /\ UNCHANGED <<repos, statements_map, select_aggregations_only, groups,
                   gql_command, repo_index, executed>>

NextEngine ==
    \/ EvaluateStart
    \/ SkipCommand
    \/ ExecuteSelect
    \/ ExecuteOther
    \/ ReduceAndReturn

SpecEngine == InitEngine /\ [][NextEngine]_vars

\* ------------------------------------------------------------ engine properties
\* the place of a clause in the canonical order of the specification
ClauseRank(c) ==
    CASE c = "select" -> 1
      [] c = "where" -> 2
      [] c = "group" -> 3
      [] c = "aggregation" -> 4
      [] c = "having" -> 5
      [] c = "order" -> 6
      [] c = "offset" -> 7
      [] c = "limit" -> 8

ExecutedClauses == {executed[i][1] : i \in 1..Len(executed)}

\* every clause iteration is over and no call returned an error
AllClausesRan ==
    /\ e_pc = "done"
    /\ repos > 0
    /\ eval_result.kind # "Err"

\* C1: the clauses that run are clauses of the query, they run in the order
\* select, where, group, aggregation, having, order, offset, limit (no clause
\* runs after a clause that is later in this order), and once every clause
\* iteration is over each clause of the query has run.
C1_CanonicalOrder ==
    /\ ExecutedClauses \subseteq statements_map
    /\ \A i, j \in 1..Len(executed) :
          i < j => ClauseRank(executed[i][1]) <= ClauseRank(executed[j][1])
    /\ AllClausesRan => ExecutedClauses = statements_map

C1_Witness ==
    /\ AllClausesRan
    /\ statements_map = {"limit", "offset", "where"}
    /\ Len(executed) = 3
    /\ executed[2][1] = "offset"
    /\ executed[3][1] = "limit"

\* C2: with a select clause and n >= 1 repositories, the i-th call is the
\* select clause on repository i for i = 1..n, so select runs once per
\* repository, in list order, before every other clause; every other clause of
\* the query runs exactly once, on the first repository.
C2_SelectPerRepository ==
    /\ \A i \in 1..Len(executed) :
          IF executed[i][1] = "select"
          THEN i <= repos /\ executed[i][2] = i
          ELSE /\ executed[i][2] = 1
               /\ \A j \in 1..Len(executed) : executed[j][1] = executed[i][1] => j = i
               /\ "select" \in statements_map => i > repos
    /\ (AllClausesRan /\ "select" \in statements_map) =>
          /\ Len(executed) = repos + Cardinality(statements_map \ {"select"})
          /\ \A i \in 1..repos : executed[i][1] = "select"

C2_Witness ==
    /\ AllClausesRan
    /\ repos = 2
    /\ statements_map = {"select", "where", "order"}
    /\ Len(executed) = 4

\* C3: a call that returns an error is the last call made, evaluate is over
\* and has returned Err with the string of that call; evaluate returns Err in
\* no other way.
C3_FirstErrorAborts ==
    /\ \A i \in 1..Len(executed) :
          executed[i][3] # "" =>
             /\ i = Len(executed)
             /\ e_pc = "done"
             /\ eval_result = ErrResult(executed[i][3])
    /\ eval_result.kind = "Err" =>
          /\ Len(executed) > 0
          /\ executed[Len(executed)][3] = eval_result.error

C3_Witness ==
    /\ eval_result = ErrResult("error B")
    /\ repos = 2
    /\ statements_map = {"select", "where", "limit"}
    /\ Len(executed) = 1

\* a group cut down to its first row, a group without rows left as it is
FirstRowOnly(group) == IF Len(group) = 0 THEN <<>> ELSE <<group[1]>>

\* C4: when the clauses leave more than one group, evaluate returns as many
\* groups, in the same order, each cut down to its first row; a group of zero
\* or one row comes back unchanged.
C4_ManyGroupsReduced ==
    (AllClausesRan /\ Len(groups) > 1) =>
        /\ eval_result.kind = "Ok"
        /\ Len(eval_result.groups) = Len(groups)
        /\ \A i \in 1..Len(groups) :
              /\ eval_result.groups[i] = FirstRowOnly(groups[i])
              /\ Len(groups[i]) <= 1 => eval_result.groups[i] = groups[i]

C4_Witness ==
    /\ AllClausesRan
    /\ eval_result.kind = "Ok"
    /\ Len(groups) = 2
    /\ Len(groups[1]) = 0
    /\ Len(groups[2]) = 2
    /\ eval_result.groups = <<<<>>, <<1>>>>

\* C5: when the clauses leave exactly one group, evaluate returns Ok: with the
\* group cut down to its first row if the query is flagged single-value
\* (whatever the number of rows, zero included), with all its rows otherwise.
C5_SingleGroup ==
    (AllClausesRan /\ Len(groups) = 1) =>
        IF select_aggregations_only
        THEN eval_result = OkResult(<<FirstRowOnly(groups[1])>>)
        ELSE eval_result = OkResult(groups)

\* ------------------------------------------------------------ parser model
\* A token is its kind and its literal.  Token kinds of the model:
\*   Select Where Group By Having Order Limit Offset Not From As Star
\*   Comma Semicolon Integer String True False Null Symbol LeftParen RightParen
\*   BitwiseOr LogicalOr LogicalAnd
\* The levels of the expression descent whose operator tokens are outside
\* this list hand their operand through unchanged and are not written out.
\* Diagnostic messages are the ones of the source, with ' where the source
\* has a backquote.
\* Positions are 1-based: `position` is the Rust index plus one, so that
\* `*position < tokens.len()` reads `position <= Len(tokens)`.
Tok(kind, literal) == [kind |-> kind, literal |-> literal]

\* `*position < tokens.len()`
has_token(toks, pos) == pos <= Len(toks)

\* `*position < tokens.len() && tokens[*position].kind == kind`
token_is(toks, pos, kind) == has_token(toks, pos) /\ toks[pos].kind = kind

consume_kind(toks, pos, kind) == token_is(toks, pos, kind)

\* str::parse::<usize>() and parse::<i64>() on the literals of the model:
\* a literal outside this table is out of range (PosOverflow)
IntegerValue == [l \in {"0", "1", "2", "3"} |->
                   CASE l = "0" -> 0 [] l = "1" -> 1 [] l = "2" -> 2 [] l = "3" -> 3]

\* an expression node with the type expr_type(env) gave when it was built
Node(kind, op, literal, args, ty) ==
    [node |-> kind, op |-> op, literal |-> literal, args |-> args, ty |-> ty]

NoExpr == Node("None", "", "", <<>>, "")

\* Results of the parse functions.  A parse function gets the place it starts
\* from as a record with pos, context and env (both are `&mut` in the source,
\* so an Err hands back what was changed before it) and returns the same
\* fields with the outcome: "ok" with the expression, "err" with the message
\* of the Diagnostic (and the type it reports as the actual one), or "panic"
\* for an index out of bounds.
ExprOk(p, expr) ==
    [st |-> "ok", pos |-> p.pos, context |-> p.context, env |-> p.env,
     expr |-> expr, msg |-> "", got |-> ""]

ExprErr(p, msg) ==
    [st |-> "err", pos |-> p.pos, context |-> p.context, env |-> p.env,
     expr |-> NoExpr, msg |-> msg, got |-> ""]

ExprPanic(p) ==
    [st |-> "panic", pos |-> p.pos, context |-> p.context, env |-> p.env,
     expr |-> NoExpr, msg |-> "index out of bounds", got |-> ""]

\* type_mismatch_error(location, expected, actual)
type_mismatch_error(p, expected, actual) ==
    [ExprErr(p, "Type mismatch") EXCEPT !.got = actual]

\* `*position += 1`
Advance(p) == [p EXCEPT !.pos = @ + 1]

\* is_expression_type_equals(env, expr, expected): Equals when the type is the
\* expected one or Any, otherwise no implicit cast to the expected type exists
is_expression_type_equals(expr, expected) ==
    IF expr.ty = expected \/ expr.ty = "Any"
    THEN "Equals"
    ELSE "NotEqualAndCantImplicitCast"

\* SymbolExpression::expr_type(env): the type the name has in env.scopes
symbol_type(e, name) ==
    IF name \in DOMAIN e.scopes THEN e.scopes[name] ELSE "Undefined"

un_expected_expression_error(toks, p) ==
    IF p.pos = 1 \/ p.pos > Len(toks)
    THEN ExprErr(p, "Can't complete parsing this expression")
    ELSE LET current == toks[p.pos].kind
             previous == toks[p.pos - 1].kind
         IN  IF current = "Ascending" \/ current = "Descending"
             THEN ExprErr(p, "'ASC' and 'DESC' must be used in 'ORDER BY' statement")
             ELSE IF previous = "Equal" /\ current = "Equal"
             THEN ExprErr(p, "Unexpected '==', Just use '=' to check equality")
             ELSE IF previous = "Greater" /\ current = "Equal"
             THEN ExprErr(p, "Unexpected '> =', do you mean '>='?")
             ELSE IF previous = "Less" /\ current = "Equal"
             THEN ExprErr(p, "Unexpected '< =', do you mean '<='?")
             ELSE IF previous = "Greater" /\ current = "Greater"
             THEN ExprErr(p, "Unexpected '> >', do you mean '>>'?")
             ELSE IF previous = "Less" /\ current = "Less"
             THEN ExprErr(p, "Unexpected '< <', do you mean '<<'?")
             ELSE IF previous = "Less" /\ current = "Greater"
             THEN ExprErr(p, "Unexpected '< >', do you mean '<>'?")
             ELSE IF previous = "LessEqual" /\ current = "Greater"
             THEN ExprErr(p, "Unexpected '<= >', do you mean '<=>'?")
             ELSE ExprErr(p, "Can't complete parsing this expression")

parse_const_integer_expression(toks, p) ==
    IF toks[p.pos].literal \in DOMAIN IntegerValue
    THEN ExprOk(Advance(p), Node("Number", "", toks[p.pos].literal, <<>>, "Integer"))
    ELSE ExprErr(p, "Too big Integer value")

parse_symbol_expression(toks, p) ==
    LET literal == toks[p.pos].literal
        context1 == IF ~p.context.has_select_statement
                    THEN [p.context EXCEPT !.projection_names = Append(@, literal)]
                    ELSE p.context
        p1 == [p EXCEPT !.pos = @ + 1, !.context = context1]
    IN  IF context1.has_select_statement
        THEN LET value == IF literal \in DOMAIN context1.name_alias_table
                          THEN context1.name_alias_table[literal]
                          ELSE literal
             IN  IF value \notin DOMAIN p1.env.scopes
                 THEN \* the Diagnostic is located at tokens[*position], past the symbol
                      IF has_token(toks, p1.pos)
                      THEN ExprErr(p1, "Unresolved column or variable name")
                      ELSE ExprPanic(p1)
                 ELSE LET context2 ==
                            IF \A i \in 1..Len(context1.selected_fields) :
                                  context1.selected_fields[i] # value
                            THEN [context1 EXCEPT !.hidden_selections = Append(@, value)]
                            ELSE context1
                      IN  ExprOk([p1 EXCEPT !.context = context2],
                                 Node("Symbol", "", value, <<>>, symbol_type(p1.env, value)))
        ELSE ExprOk(p1, Node("Symbol", "", literal, <<>>, symbol_type(p1.env, literal)))

RECURSIVE parse_expression(_, _)

\* lines 2495-2502 of parse_group_expression: r is the expression in the group
group_expression_end(toks, r) ==
    IF r.st # "ok" THEN r
    ELSE IF ~has_token(toks, r.pos)
    THEN \* tokens[*position] is read without a bound check
         ExprPanic(r)
    ELSE IF toks[r.pos].kind # "RightParen"
    THEN ExprErr(r, "Expect ')' to end group expression")
    ELSE ExprOk(Advance(r), r.expr)

parse_group_expression(toks, p) ==
    group_expression_end(toks, parse_expression(toks, Advance(p)))

\* GlobalVariableExpression::expr_type(env): the type the name has in
\* env.globals
global_type(e, name) ==
    IF name \in DOMAIN e.globals THEN e.globals[name] ELSE "Undefined"

\* the branches of a CASE while its `while` runs
NoBranches ==
    [conditions |-> <<>>, values |-> <<>>, default_value |-> <<>>,
     has_else_branch |-> FALSE]

CaseErr(p, acc, msg) == [r |-> ExprErr(p, msg), acc |-> acc]

RECURSIVE case_branches(_, _, _)

\* lines 2535-2538: the value after `ELSE` is parsed
case_else_parsed(toks, acc, r) ==
    IF r.st # "ok" THEN [r |-> r, acc |-> acc]
    ELSE case_branches(toks, r,
            [acc EXCEPT !.default_value = <<r.expr>>, !.has_else_branch = TRUE])

\* lines 2571-2572: the value after `THEN` is parsed
case_value_parsed(toks, acc, r) ==
    IF r.st # "ok" THEN [r |-> r, acc |-> acc]
    ELSE case_branches(toks, r, [acc EXCEPT !.values = Append(@, r.expr)])

\* lines 2553-2570: the condition after `WHEN` is parsed
case_condition_parsed(toks, acc, r) ==
    IF r.st # "ok" THEN [r |-> r, acc |-> acc]
    ELSE IF r.expr.ty # "Boolean"
    THEN CaseErr(r, acc, "Case condition must be a boolean type")
    ELSE IF ~consume_kind(toks, r.pos, "Then")
    THEN CaseErr(r, acc, "Expect 'THEN' after case condition")
    ELSE case_value_parsed(toks, [acc EXCEPT !.conditions = Append(@, r.expr)],
                           parse_expression(toks, Advance(r)))

\* one turn of the `while` of parse_case_expression
case_branches(toks, p, acc) ==
    IF ~has_token(toks, p.pos) \/ toks[p.pos].kind = "End"
    THEN [r |-> ExprOk(p, NoExpr), acc |-> acc]
    ELSE IF toks[p.pos].kind = "Else"
    THEN IF acc.has_else_branch
         THEN CaseErr(p, acc, "This 'CASE' expression already has else branch")
         ELSE case_else_parsed(toks, acc, parse_expression(toks, Advance(p)))
    ELSE IF ~consume_kind(toks, p.pos, "When")
    THEN CaseErr(p, acc, "Expect 'when' before case condition")
    ELSE case_condition_parsed(toks, acc, parse_expression(toks, Advance(p)))

\* CaseExpression { conditions, values, default_value, values_type }: the
\* arguments are the conditions, then the values, then the default value
CaseExpression(acc, values_type) ==
    Node("Case", "", "", acc.conditions \o acc.values \o acc.default_value, values_type)

\* lines 2575-2622: the `while` of parse_case_expression is over
case_expression_end(toks, c) ==
    IF c.r.st # "ok" THEN c.r
    ELSE IF c.acc.conditions = <<>> /\ ~c.acc.has_else_branch
    THEN ExprErr(c.r, "Case expression must has at least else branch")
    ELSE IF ~token_is(toks, c.r.pos, "End")
    THEN ExprErr(c.r, "Expect 'END' after case branches")
    ELSE IF ~c.acc.has_else_branch
    THEN ExprErr(Advance(c.r), "Case expression must has else branch")
    ELSE IF c.acc.values = <<>>
    THEN \* values[0] of an empty vector
         ExprPanic(Advance(c.r))
    ELSE IF \E i \in 2..Len(c.acc.values) : c.acc.values[i].ty # c.acc.values[1].ty
    THEN ExprErr(Advance(c.r),
                 "Case value in branch has different type than the last branch")
    ELSE ExprOk(Advance(c.r), CaseExpression(c.acc, c.acc.values[1].ty))

parse_case_expression(toks, p) ==
    case_expression_end(toks, case_branches(toks, Advance(p), NoBranches))

parse_primary_expression(toks, p) ==
    IF ~has_token(toks, p.pos)
    THEN un_expected_expression_error(toks, p)
    ELSE LET kind == toks[p.pos].kind
         IN  CASE kind = "Integer" -> parse_const_integer_expression(toks, p)
               [] kind = "Symbol" -> parse_symbol_expression(toks, p)
               [] kind = "LeftParen" -> parse_group_expression(toks, p)
               [] kind = "Case" -> parse_case_expression(toks, p)
               [] kind = "GlobalVariable" ->
                    ExprOk(Advance(p),
                           Node("GlobalVariable", "", toks[p.pos].literal, <<>>,
                                global_type(p.env, toks[p.pos].literal)))
               [] kind = "String" ->
                    ExprOk(Advance(p), Node("String", "", toks[p.pos].literal, <<>>, "Text"))
               [] kind = "True" ->
                    ExprOk(Advance(p), Node("Boolean", "", "true", <<>>, "Boolean"))
               [] kind = "False" ->
                    ExprOk(Advance(p), Node("Boolean", "", "false", <<>>, "Boolean"))
               [] kind = "Null" ->
                    ExprOk(Advance(p), Node("Null", "", "", <<>>, "Null"))
               [] OTHER -> un_expected_expression_error(toks, p)

\* ------------------------------------------------------------ function calls
\* context.generate_column_name(): a new name on every call
GeneratedColumnNames == 
    <<"column_1", "column_2", "column_3", "column_4", "column_5", "column_6",
      "column_7", "column_8", "column_9", "column_10", "column_11", "column_12">>

generate_column_name(c) == GeneratedColumnNames[c.column_counter + 1]

\* expression_literal(expression): the name when the expression is a Symbol
is_symbol(expr) == expr.node = "Symbol"

\* env.define(name, type)
env_define(e, name, ty) == [e EXCEPT !.scopes = (name :> ty) @@ @]

\* env.is_std_function / env.std_signature: the standard functions
StdSignatures ==
    [f \in {"lower"} |-> [parameters |-> <<"Text">>, return_type |-> "Text"]]

\* env.is_aggregation_function / env.aggregation_signature: the aggregations
AggregationSignatures ==
    [f \in {"count", "max"} |->
        IF f = "count"
        THEN [parameters |-> <<"Any">>, return_type |-> "Integer"]
        ELSE [parameters |-> <<"Integer">>, return_type |-> "Integer"]]

\* check_function_call_arguments: as many arguments as parameters, each of
\* the type of its parameter
check_function_call_arguments(arguments, parameters) ==
    /\ Len(arguments) = Len(parameters)
    /\ \A i \in 1..Len(arguments) :
          \/ parameters[i] = "Any"
          \/ arguments[i].ty = "Any"
          \/ arguments[i].ty = parameters[i]

RECURSIVE arguments_loop(_, _, _)

\* lines 2276-2280: a ',' asks for one more argument
arguments_next(toks, arguments, r) ==
    IF token_is(toks, r.pos, "Comma")
    THEN arguments_loop(toks, Advance(r), arguments)
    ELSE [r |-> r, arguments |-> arguments]

\* the body of the 'while' of parse_arguments_expressions, r being the
\* parsed argument
argument_parsed(toks, arguments, r) ==
    IF r.st # "ok" THEN [r |-> r, arguments |-> arguments]
    ELSE IF is_symbol(r.expr)
    THEN arguments_next(toks, Append(arguments, r.expr),
            [r EXCEPT !.context.hidden_selections = Append(@, r.expr.literal)])
    ELSE arguments_next(toks, Append(arguments, r.expr), r)

\* the 'while' of parse_arguments_expressions
arguments_loop(toks, p, arguments) ==
    IF ~has_token(toks, p.pos) \/ toks[p.pos].kind = "RightParen"
    THEN [r |-> ExprOk(p, NoExpr), arguments |-> arguments]
    ELSE argument_parsed(toks, arguments, parse_expression(toks, p))

\* lines 2282-2292: the ')' after the arguments
arguments_end(toks, a) ==
    IF a.r.st # "ok" THEN a
    ELSE IF ~consume_kind(toks, a.r.pos, "RightParen")
    THEN [a EXCEPT !.r = ExprErr(a.r, "Expect ')' after function call arguments")]
    ELSE [a EXCEPT !.r = Advance(a.r)]

parse_arguments_expressions(toks, p) ==
    IF consume_kind(toks, p.pos, "LeftParen")
    THEN arguments_end(toks, arguments_loop(toks, Advance(p), <<>>))
    ELSE [r |-> ExprOk(p, NoExpr), arguments |-> <<>>]

\* lines 2179-2199: the arguments of a standard function are parsed
std_function_call(function_name, a) ==
    IF a.r.st # "ok" THEN a.r
    ELSE IF ~check_function_call_arguments(a.arguments,
                                           StdSignatures[function_name].parameters)
    THEN ExprErr(a.r, "Function arguments don't match the signature")
    ELSE ExprOk([a.r EXCEPT !.env = env_define(@, function_name,
                                       StdSignatures[function_name].return_type)],
                Node("Call", function_name, "", a.arguments,
                     StdSignatures[function_name].return_type))

\* lines 2230-2241: the aggregation is stored under a generated column name
\* and a symbol of that name stands for the call
aggregation_registered(function_name, a, column_name, return_type) ==
    ExprOk([a.r EXCEPT
               !.context.column_counter = @ + 1,
               !.context.hidden_selections = Append(@, column_name),
               !.context.aggregations =
                   Append(@, [name |-> column_name, kind |-> "Function",
                              value |-> Node("Call", function_name, "", a.arguments,
                                             return_type)]),
               !.env = env_define(@, column_name, return_type)],
           Node("Symbol", "", column_name, <<>>, return_type))

\* lines 2203-2242: the arguments of an aggregation function are parsed
aggregation_function_call(function_name, aggregations_count_before, a) ==
    IF a.r.st # "ok" THEN a.r
    ELSE IF Len(a.r.context.aggregations) # aggregations_count_before
    THEN ExprErr(a.r, "Aggregated values can't as used for aggregation function argument")
    ELSE IF ~check_function_call_arguments(a.arguments,
                                           AggregationSignatures[function_name].parameters)
    THEN ExprErr(a.r, "Function arguments don't match the signature")
    ELSE aggregation_registered(function_name, a, generate_column_name(a.r.context),
                                AggregationSignatures[function_name].return_type)

parse_function_call_expression(toks, p) ==
    IF token_is(toks, p.pos, "Symbol") /\ token_is(toks, p.pos + 1, "LeftParen")
    THEN IF toks[p.pos].literal \in DOMAIN StdSignatures
         THEN std_function_call(toks[p.pos].literal,
                                parse_arguments_expressions(toks, Advance(p)))
         ELSE IF toks[p.pos].literal \in DOMAIN AggregationSignatures
         THEN aggregation_function_call(toks[p.pos].literal,
                                        Len(p.context.aggregations),
                                        parse_arguments_expressions(toks, Advance(p)))
         ELSE ExprErr(Advance(p), "No such function name")
    ELSE parse_primary_expression(toks, p)

\* ------------------------------------------------------------- unary, math
is_prefix_unary_operator(kind) == kind \in {"Bang", "Minus", "BitwiseNot"}

\* the operator a prefix token stands for (lines 2133-2139)
PrefixUnaryOperator(kind) ==
    IF kind = "Bang" THEN "Bang" ELSE IF kind = "Minus" THEN "Minus" ELSE "Not"

\* DataType::is_number / DataType::is_int
is_number(ty) == ty \in {"Integer", "Float"}

is_int(ty) == ty = "Integer"

\* prefix_unary_expected_type(op) and the test of type_check_prefix_unary
prefix_unary_expected_type(op) == IF op = "Bang" THEN "Boolean" ELSE "Integer"

type_check_prefix_unary(rhs, op) ==
    IF \/ op = "Bang" /\ rhs.ty = "Boolean"
       \/ op = "Minus" /\ is_number(rhs.ty)
       \/ op = "Not" /\ is_int(rhs.ty)
    THEN "Equals"
    ELSE "NotEqualAndCantImplicitCast"

\* lines 2143-2157: the operand of the prefix operator is parsed
unary_rhs(op, rhs) ==
    IF rhs.st # "ok" THEN rhs
    ELSE IF type_check_prefix_unary(rhs.expr, op) = "NotEqualAndCantImplicitCast"
    THEN type_mismatch_error(rhs, prefix_unary_expected_type(op), rhs.expr.ty)
    ELSE ExprOk(rhs, Node("Unary", op, "", <<rhs.expr>>,
                          IF op = "Bang" THEN "Boolean" ELSE rhs.expr.ty))

RECURSIVE parse_prefix_unary_expression(_, _)
parse_prefix_unary_expression(toks, p) ==
    IF has_token(toks, p.pos)
    THEN IF is_prefix_unary_operator(toks[p.pos].kind)
         THEN unary_rhs(PrefixUnaryOperator(toks[p.pos].kind),
                        parse_prefix_unary_expression(toks, Advance(p)))
         ELSE parse_function_call_expression(toks, p)
    ELSE parse_function_call_expression(toks, p)

\* ArithmeticExpression::expr_type: Integer for two integers, Float otherwise
arithmetic_type(lhs_type, rhs_type) ==
    IF is_int(lhs_type) /\ is_int(rhs_type) THEN "Integer" ELSE "Float"

\* A level of binary operators is written as its source runs: the operand is
\* parsed, joined with the pending left side and operator when there is one
\* (pending = <<[lhs |-> expression, op |-> operator]>>, and <<>> for the
\* first operand), then the next token decides whether one more turn follows.
Pending(lhs, op) == <<[lhs |-> lhs, op |-> op]>>

is_factor_operator(kind) == kind \in {"Star", "Slash", "Percentage"}

RECURSIVE factor_operand(_, _, _)

\* 'while *position < tokens.len() && is_factor_operator(..)'
factor_loop(toks, lhs) ==
    IF has_token(toks, lhs.pos)
    THEN IF is_factor_operator(toks[lhs.pos].kind)
         THEN factor_operand(toks, Pending(lhs.expr, toks[lhs.pos].kind), Advance(lhs))
         ELSE lhs
    ELSE lhs

\* lines 1844-1863: rhs is the operand after the operator
factor_rhs(toks, pending, rhs) ==
    IF rhs.st # "ok" THEN rhs
    ELSE IF pending = <<>> THEN factor_loop(toks, rhs)
    ELSE IF is_number(pending[1].lhs.ty) /\ is_number(rhs.expr.ty)
    THEN factor_loop(toks,
            ExprOk(rhs, Node("Arithmetic", pending[1].op, "",
                             <<pending[1].lhs, rhs.expr>>,
                             arithmetic_type(pending[1].lhs.ty, rhs.expr.ty))))
    ELSE [ExprErr(rhs, "Math operators require number types") EXCEPT
             !.got = rhs.expr.ty]

\* parse_like_expression, parse_glob_expression and
\* parse_index_or_slice_expression hand the prefix unary expression through
\* for the token kinds of the model
factor_operand(toks, pending, p) ==
    factor_rhs(toks, pending, parse_prefix_unary_expression(toks, p))

parse_factor_expression(toks, p) == factor_operand(toks, <<>>, p)

is_term_operator(kind) == kind \in {"Plus", "Minus"}

RECURSIVE term_operand(_, _, _)
RECURSIVE parse_term_expression(_, _)

\* 'while *position < tokens.len() && is_term_operator(..)'
term_loop(toks, lhs) ==
    IF has_token(toks, lhs.pos)
    THEN IF is_term_operator(toks[lhs.pos].kind)
         THEN term_operand(toks, Pending(lhs.expr, toks[lhs.pos].kind), Advance(lhs))
         ELSE lhs
    ELSE lhs

\* lines 1786-1820: rhs is the operand after the operator
term_rhs(toks, pending, rhs) ==
    IF rhs.st # "ok" THEN rhs
    ELSE IF pending = <<>> THEN term_loop(toks, rhs)
    ELSE IF is_number(pending[1].lhs.ty) /\ is_number(rhs.expr.ty)
    THEN term_loop(toks,
            ExprOk(rhs, Node("Arithmetic", pending[1].op, "",
                             <<pending[1].lhs, rhs.expr>>,
                             arithmetic_type(pending[1].lhs.ty, rhs.expr.ty))))
    ELSE IF pending[1].op = "Plus"
    THEN [ExprErr(rhs, "Math operators '+' both sides to be number types") EXCEPT
             !.got = rhs.expr.ty]
    ELSE [ExprErr(rhs, "Math operators require number types") EXCEPT
             !.got = rhs.expr.ty]

\* the operand after '+' or '-' is parsed as a whole term expression
term_operand_right_recursive(toks, pending, p) ==
    IF pending = <<>>
    THEN term_rhs(toks, pending, parse_factor_expression(toks, p))
    ELSE term_rhs(toks, pending, parse_term_expression(toks, p))

term_operand(toks, pending, p) ==
    term_rhs(toks, pending, parse_factor_expression(toks, p))

parse_term_expression(toks, p) == term_operand(toks, <<>>, p)

is_bitwise_shift_operator(kind) == kind \in {"BitwiseLeftShift", "BitwiseRightShift"}

RECURSIVE shift_operand(_, _, _)

\* 'while *position < tokens.len() && is_bitwise_shift_operator(..)'
shift_loop(toks, lhs) ==
    IF has_token(toks, lhs.pos)
    THEN IF is_bitwise_shift_operator(toks[lhs.pos].kind)
         THEN shift_operand(toks,
                  Pending(lhs.expr, IF toks[lhs.pos].kind = "BitwiseRightShift"
                                    THEN "RightShift" ELSE "LeftShift"),
                  Advance(lhs))
         ELSE lhs
    ELSE lhs

\* the test of lines 1749-1757: 'rhs.is_int() && rhs != lhs'
shift_types_refused(lhs_type, rhs_type) ==
    is_int(rhs_type) /\ rhs_type # lhs_type

\* lines 1746-1763: rhs is the operand after the operator
shift_rhs(toks, pending, rhs) ==
    IF rhs.st # "ok" THEN rhs
    ELSE IF pending = <<>> THEN shift_loop(toks, rhs)
    ELSE IF shift_types_refused(pending[1].lhs.ty, rhs.expr.ty)
    THEN [ExprErr(rhs, "Bitwise operators require number types") EXCEPT
             !.got = rhs.expr.ty]
    ELSE shift_loop(toks,
            ExprOk(rhs, Node("Bitwise", pending[1].op, "",
                             <<pending[1].lhs, rhs.expr>>, "Integer")))

shift_operand(toks, pending, p) ==
    shift_rhs(toks, pending, parse_term_expression(toks, p))

parse_bitwise_shift_expression(toks, p) == shift_operand(toks, <<>>, p)

\* are_types_equals(env, lhs, rhs): Equals for one type on both sides or Any
\* on one side; no implicit cast joins the other types of the model
are_types_equals(lhs, rhs) ==
    IF lhs.ty = rhs.ty \/ lhs.ty = "Any" \/ rhs.ty = "Any"
    THEN "Equals"
    ELSE "NotEqualAndCantImplicitCast"

is_comparison_operator(kind) ==
    kind \in {"Greater", "GreaterEqual", "Less", "LessEqual", "NullSafeEqual"}

RECURSIVE comparison_operand(_, _, _)

\* lines 1690-1723: rhs is the operand after the operator
comparison_rhs(toks, pending, rhs) ==
    IF rhs.st # "ok" THEN rhs
    ELSE IF pending = <<>>
    THEN IF has_token(toks, rhs.pos)
         THEN IF is_comparison_operator(toks[rhs.pos].kind)
              THEN comparison_operand(toks, Pending(rhs.expr, toks[rhs.pos].kind),
                                      Advance(rhs))
              ELSE rhs
         ELSE rhs
    ELSE IF are_types_equals(pending[1].lhs, rhs.expr) = "NotEqualAndCantImplicitCast"
    THEN [ExprErr(rhs, "Can't compare values of different types") EXCEPT
             !.got = rhs.expr.ty]
    ELSE ExprOk(rhs, Node("Comparison", pending[1].op, "",
                          <<pending[1].lhs, rhs.expr>>, "Boolean"))

comparison_operand(toks, pending, p) ==
    comparison_rhs(toks, pending, parse_bitwise_shift_expression(toks, p))

parse_comparison_expression(toks, p) == comparison_operand(toks, <<>>, p)

RECURSIVE equality_operand(_, _, _)

\* lines 1625-1659: rhs is the operand after '=' or '!='
equality_rhs(toks, pending, rhs) ==
    IF rhs.st # "ok" THEN rhs
    ELSE IF pending = <<>>
    THEN IF has_token(toks, rhs.pos)
         THEN IF toks[rhs.pos].kind \in {"Equal", "BangEqual"}
              THEN equality_operand(toks,
                       Pending(rhs.expr, IF toks[rhs.pos].kind = "Equal"
                                         THEN "Equal" ELSE "NotEqual"),
                       Advance(rhs))
              ELSE rhs
         ELSE rhs
    ELSE IF are_types_equals(pending[1].lhs, rhs.expr) = "NotEqualAndCantImplicitCast"
    THEN [ExprErr(rhs, "Can't compare values of different types") EXCEPT
             !.got = rhs.expr.ty]
    ELSE ExprOk(rhs, Node("Comparison", pending[1].op, "",
                          <<pending[1].lhs, rhs.expr>>, "Boolean"))

equality_operand(toks, pending, p) ==
    equality_rhs(toks, pending, parse_comparison_expression(toks, p))

parse_equality_expression(toks, p) == equality_operand(toks, <<>>, p)

RECURSIVE bitwise_and_operand(_, _, _)

\* lines 1571-1595: rhs is the operand before or after '&'
bitwise_and_rhs(toks, pending, rhs) ==
    IF rhs.st # "ok" THEN rhs
    ELSE IF pending = <<>>
    THEN IF ~token_is(toks, rhs.pos, "BitwiseAnd") THEN rhs
         ELSE IF rhs.expr.ty # "Integer"
         THEN type_mismatch_error(Advance(rhs), "Integer", rhs.expr.ty)
         ELSE bitwise_and_operand(toks, Pending(rhs.expr, "And"), Advance(rhs))
    ELSE IF rhs.expr.ty # "Integer"
    THEN \* located at tokens[*position]; reports the type of lhs
         IF has_token(toks, rhs.pos)
         THEN type_mismatch_error(rhs, "Integer", pending[1].lhs.ty)
         ELSE ExprPanic(rhs)
    ELSE ExprOk(rhs, Node("Bitwise", "And", "", <<pending[1].lhs, rhs.expr>>, "Integer"))

bitwise_and_operand(toks, pending, p) ==
    bitwise_and_rhs(toks, pending, parse_equality_expression(toks, p))

parse_bitwise_and_expression(toks, p) == bitwise_and_operand(toks, <<>>, p)

RECURSIVE logical_xor_operand(_, _, _)

\* lines 1520-1538: the left side is checked when '^' follows
logical_xor_loop(toks, lhs) ==
    IF ~token_is(toks, lhs.pos, "LogicalXor") THEN lhs
    ELSE IF is_expression_type_equals(lhs.expr, "Boolean") = "NotEqualAndCantImplicitCast"
    THEN type_mismatch_error(lhs, "Boolean", lhs.expr.ty)
    ELSE logical_xor_operand(toks, Pending(lhs.expr, "Xor"), Advance(lhs))

\* lines 1539-1558: rhs is the operand after '^'
logical_xor_rhs(toks, pending, rhs) ==
    IF rhs.st # "ok" THEN rhs
    ELSE IF pending = <<>> THEN logical_xor_loop(toks, rhs)
    ELSE IF is_expression_type_equals(rhs.expr, "Boolean") = "NotEqualAndCantImplicitCast"
    THEN IF has_token(toks, rhs.pos)
         THEN type_mismatch_error(rhs, "Boolean", rhs.expr.ty)
         ELSE ExprPanic(rhs)
    ELSE logical_xor_loop(toks,
            ExprOk(rhs, Node("Logical", "Xor", "", <<pending[1].lhs, rhs.expr>>, "Boolean")))

logical_xor_operand(toks, pending, p) ==
    logical_xor_rhs(toks, pending, parse_bitwise_and_expression(toks, p))

parse_logical_xor_expression(toks, p) == logical_xor_operand(toks, <<>>, p)

\* lines 1493-1508 of parse_bitwise_or_expression: both operands are parsed
bitwise_or_rhs(toks, lhs, rhs) ==
    IF rhs.st # "ok" THEN rhs
    ELSE IF rhs.expr.ty # "Integer"
    THEN \* located at tokens[*position]; reports the type of lhs
         IF has_token(toks, rhs.pos)
         THEN type_mismatch_error(rhs, "Integer", lhs.expr.ty)
         ELSE ExprPanic(rhs)
    ELSE ExprOk(rhs, Node("Bitwise", "Or", "", <<lhs.expr, rhs.expr>>, "Integer"))

\* lines 1480-1492 of parse_bitwise_or_expression: the left operand is parsed
bitwise_or_lhs(toks, lhs) ==
    IF lhs.st # "ok" THEN lhs
    ELSE IF ~token_is(toks, lhs.pos, "BitwiseOr") THEN lhs
    ELSE IF lhs.expr.ty # "Integer"
    THEN type_mismatch_error(Advance(lhs), "Integer", lhs.expr.ty)
    ELSE bitwise_or_rhs(toks, lhs, parse_logical_xor_expression(toks, Advance(lhs)))

parse_bitwise_or_expression(toks, p) ==
    bitwise_or_lhs(toks, parse_logical_xor_expression(toks, p))

RECURSIVE logical_and_loop(_, _)

\* lines 1447-1468: the right operand of `&&` is parsed
logical_and_rhs(toks, lhs, rhs) ==
    IF rhs.st # "ok" THEN rhs
    ELSE IF is_expression_type_equals(rhs.expr, "Boolean") = "NotEqualAndCantImplicitCast"
    THEN IF has_token(toks, rhs.pos)
         THEN type_mismatch_error(rhs, "Boolean", rhs.expr.ty)
         ELSE ExprPanic(rhs)
    ELSE logical_and_loop(toks,
            ExprOk(rhs, Node("Logical", "And", "", <<lhs.expr, rhs.expr>>, "Boolean")))

\* the `?` on the left operand and one turn of the `while` of
\* parse_logical_and_expression
logical_and_loop(toks, lhs) ==
    IF lhs.st # "ok" THEN lhs
    ELSE IF ~token_is(toks, lhs.pos, "LogicalAnd") THEN lhs
    ELSE IF is_expression_type_equals(lhs.expr, "Boolean") = "NotEqualAndCantImplicitCast"
    THEN type_mismatch_error(lhs, "Boolean", lhs.expr.ty)
    ELSE logical_and_rhs(toks, lhs, parse_bitwise_or_expression(toks, Advance(lhs)))

parse_logical_and_expression(toks, p) ==
    logical_and_loop(toks, parse_bitwise_or_expression(toks, p))

RECURSIVE logical_or_loop(_, _)

\* lines 1396-1417: the right operand of `||` is parsed
logical_or_rhs(toks, lhs, rhs) ==
    IF rhs.st # "ok" THEN rhs
    ELSE IF is_expression_type_equals(rhs.expr, "Boolean") = "NotEqualAndCantImplicitCast"
    THEN IF has_token(toks, rhs.pos)
         THEN type_mismatch_error(rhs, "Boolean", rhs.expr.ty)
         ELSE ExprPanic(rhs)
    ELSE logical_or_loop(toks,
            ExprOk(rhs, Node("Logical", "Or", "", <<lhs.expr, rhs.expr>>, "Boolean")))

\* the `?` on the left operand and one turn of the `while` of
\* parse_logical_or_expression
logical_or_loop(toks, lhs) ==
    IF lhs.st # "ok" THEN lhs
    ELSE IF ~token_is(toks, lhs.pos, "LogicalOr") THEN lhs
    ELSE IF is_expression_type_equals(lhs.expr, "Boolean") = "NotEqualAndCantImplicitCast"
    THEN type_mismatch_error(lhs, "Boolean", lhs.expr.ty)
    ELSE logical_or_rhs(toks, lhs, parse_logical_and_expression(toks, Advance(lhs)))

parse_logical_or_expression(toks, p) ==
    logical_or_loop(toks, parse_logical_and_expression(toks, p))

\* lines 1082-1104 of parse_expression: an expression that added an
\* aggregation is replaced by a symbol naming a generated column
aggregation_column(aggregations_count_before, r) ==
    IF r.st # "ok" THEN r
    ELSE IF Len(r.context.aggregations) # aggregations_count_before
    THEN LET column_name == generate_column_name(r.context)
             env1 == [r.env EXCEPT !.scopes =
                         (column_name :> r.expr.ty) @@ @]
             c1 == [r.context EXCEPT !.column_counter = @ + 1]
             c2 == IF c1.has_group_by_statement
                      /\ \A i \in 1..Len(c1.hidden_selections) :
                            c1.hidden_selections[i] # column_name
                   THEN [c1 EXCEPT !.hidden_selections = Append(@, column_name)]
                   ELSE c1
             c3 == [c2 EXCEPT !.aggregations =
                      Append(@, [name |-> column_name, kind |-> "Expression",
                                 value |-> r.expr])]
         IN  ExprOk([r EXCEPT !.context = c3, !.env = env1],
                    Node("Symbol", "", column_name, <<>>, r.expr.ty))
    ELSE r

\* env.define_global(name, type)
env_define_global(e, name, ty) == [e EXCEPT !.globals = (name :> ty) @@ @]

RECURSIVE assignment_operand(_, _, _)

\* lines 1113-1141 of parse_assignment_expression: r is the expression before
\* ':=' when variable_name = <<>>, and the value after it otherwise
assignment_rhs(toks, variable_name, r) ==
    IF r.st # "ok" THEN r
    ELSE IF variable_name = <<>>
    THEN IF ~token_is(toks, r.pos, "ColonEqual") THEN r
         ELSE IF r.expr.node # "GlobalVariable"
         THEN ExprErr(r, "Assignment expressions expect global variable name before ':='")
         ELSE assignment_operand(toks, <<r.expr.literal>>, Advance(r))
    ELSE ExprOk([r EXCEPT !.env = env_define_global(@, variable_name[1], r.expr.ty)],
                Node("Assignment", "", variable_name[1], <<r.expr>>, r.expr.ty))

\* parse_regex_expression down to parse_between_expression hand the
\* logical-or expression through for the token kinds of the model
assignment_operand(toks, variable_name, p) ==
    assignment_rhs(toks, variable_name, parse_logical_or_expression(toks, p))

parse_assignment_expression(toks, p) == assignment_operand(toks, <<>>, p)

parse_expression(toks, p) ==
    aggregation_column(Len(p.context.aggregations), parse_assignment_expression(toks, p))

\* --------------------------------------------------------------- statements
\* env.schema: the tables and the columns of each (read-only during a parse)
TablesFieldsNames ==
    [t \in {"commits", "branches"} |->
        IF t = "commits" THEN <<"commit_id", "name">> ELSE <<"name", "commit_count">>]

TablesFieldsTypes ==
    [c \in {"commit_id", "name", "commit_count"} |->
        IF c = "commit_count" THEN "Integer" ELSE "Text"]

\* Environment as the parser gets it: nothing in scope, no global defined
InitialEnv == [scopes |-> <<>>, globals |-> <<>>]

\* ParserContext::default()
DefaultContext ==
    [aggregations |-> <<>>,
     selected_fields |-> <<>>,
     hidden_selections |-> <<>>,
     projection_names |-> <<>>,
     selected_tables |-> <<>>,
     name_alias_table |-> <<>>,
     column_counter |-> 0,
     is_single_value_query |-> FALSE,
     has_select_statement |-> FALSE,
     has_group_by_statement |-> FALSE]

Contains(seq, x) == \E i \in 1..Len(seq) : seq[i] = x

\* Ok(statement) of a statement parse function
StmtOk(p, stmt) ==
    [st |-> "ok", pos |-> p.pos, context |-> p.context, env |-> p.env,
     stmt |-> stmt, msg |-> "", got |-> ""]

RECURSIVE register_fields(_, _, _)
register_fields(e, fields, i) ==
    IF i > Len(fields) THEN e
    ELSE register_fields(env_define(e, fields[i], TablesFieldsTypes[fields[i]]), fields, i + 1)

\* the table is looked up with tables_fields_names[table_name]
register_current_table_fields_types(e, table_name) ==
    register_fields(e, TablesFieldsNames[table_name], 1)

RECURSIVE add_missing(_, _, _)
\* appends the elements of names that are not in seq yet
add_missing(seq, names, i) ==
    IF i > Len(names) THEN seq
    ELSE add_missing(IF Contains(seq, names[i]) THEN seq ELSE Append(seq, names[i]),
                     names, i + 1)

RECURSIVE tables_columns(_, _)
tables_columns(tables, i) ==
    IF i > Len(tables) THEN <<>>
    ELSE TablesFieldsNames[tables[i]] \o tables_columns(tables, i + 1)

\* type_check_and_classify_selected_fields: every table with the selected
\* columns of its schema; a column of no table goes to the first table
type_check_and_classify_selected_fields(tables, fields_names) ==
    [i \in 1..Len(tables) |->
        [table_name |-> tables[i],
         columns_names |->
            SelectSeq(fields_names,
                LAMBDA f : \/ Contains(TablesFieldsNames[tables[i]], f)
                           \/ /\ i = 1
                              /\ \A j \in 1..Len(tables) :
                                    ~Contains(TablesFieldsNames[tables[j]], f))]]

\* type_check_projection_symbols: every projected symbol has to be a column
\* of exactly one of the selected tables
type_check_projection_symbols(tables, projection_names) ==
    \A n \in 1..Len(projection_names) :
        Cardinality({j \in 1..Len(tables) :
                        Contains(TablesFieldsNames[tables[j]], projection_names[n])}) = 1

RECURSIVE select_fields_loop(_, _, _)

\* the selected field is added to the names, the titles and the expressions
select_field_added(toks, p1, acc, e, field_name, title) ==
    IF token_is(toks, p1.pos, "Comma")
    THEN select_fields_loop(toks, Advance(p1),
            [fields_names |-> Append(acc.fields_names, field_name),
             selected_expr_titles |-> Append(acc.selected_expr_titles, title),
             selected_expr |-> Append(acc.selected_expr, e.expr)])
    ELSE [r |-> ExprOk(p1, NoExpr),
          acc |-> [fields_names |-> Append(acc.fields_names, field_name),
                   selected_expr_titles |-> Append(acc.selected_expr_titles, title),
                   selected_expr |-> Append(acc.selected_expr, e.expr)]]

\* the body of the `while` once the expression e of the field is parsed
select_field(toks, acc, e) ==
    IF e.st # "ok" THEN [r |-> e, acc |-> acc]
    ELSE LET generated == ~is_symbol(e.expr)
             field_name == IF generated
                           THEN generate_column_name(e.context)
                           ELSE e.expr.literal
             c0 == IF generated
                   THEN [e.context EXCEPT !.column_counter = @ + 1]
                   ELSE e.context
             e0 == [e EXCEPT !.context = c0]
         IN
         IF Contains(acc.fields_names, field_name)
         THEN [r |-> ExprErr(e0, "Can't select the same field twice"), acc |-> acc]
         ELSE IF token_is(toks, e0.pos, "As")
         THEN LET a == Advance(e0)
              IN  IF ~consume_kind(toks, a.pos, "Symbol")
                  THEN [r |-> ExprErr(a, "Expect 'identifier' as field alias name"),
                        acc |-> acc]
                  ELSE LET alias_name == toks[a.pos].literal
                       IN  IF \/ Contains(a.context.selected_fields, alias_name)
                              \/ alias_name \in DOMAIN a.context.name_alias_table
                           THEN [r |-> ExprErr(a, "You already have field with the same name"),
                                 acc |-> acc]
                           ELSE LET env1 == env_define(env_define(a.env, alias_name, e.expr.ty),
                                                       field_name, e.expr.ty)
                                    c1 == [a.context EXCEPT
                                             !.selected_fields =
                                                 Append(Append(@, alias_name), field_name),
                                             !.name_alias_table =
                                                 (field_name :> alias_name) @@ @]
                                IN  select_field_added(toks,
                                        [Advance(a) EXCEPT !.context = c1, !.env = env1],
                                        acc, e, field_name, alias_name)
         ELSE LET env1 == env_define(e0.env, field_name, e.expr.ty)
                  c1 == [e0.context EXCEPT !.selected_fields = Append(@, field_name)]
              IN  select_field_added(toks, [e0 EXCEPT !.context = c1, !.env = env1],
                                     acc, e, field_name, field_name)

\* one turn of the `while` over the selected expressions; acc holds
\* fields_names, selected_expr_titles and selected_expr
select_fields_loop(toks, p, acc) ==
    IF ~has_token(toks, p.pos) \/ toks[p.pos].kind = "From"
    THEN [r |-> ExprOk(p, NoExpr), acc |-> acc]
    ELSE select_field(toks, acc, parse_expression(toks, p))

FromErr(p, msg) == [r |-> ExprErr(p, msg), tables |-> <<>>, joins |-> <<>>]

is_join_token(kind) == kind \in {"Join", "Left", "Right", "Cross", "Inner"}

\* lines 640-660: the other table is pushed and its columns are registered;
\* o is at the name of the other table
join_registered(toks, o, table_name, other_table_name, join_kind) ==
    IF other_table_name \notin DOMAIN TablesFieldsNames
    THEN \* tables_fields_names[table_name] of a table the schema lacks
         [r |-> ExprPanic(o), tables |-> <<>>, joins |-> <<>>]
    ELSE IF token_is(toks, o.pos + 1, "On")
    THEN FromErr([Advance(o) EXCEPT
                     !.context.selected_tables = Append(@, other_table_name),
                     !.env = register_current_table_fields_types(@, other_table_name)],
                 "The 'ON' keyword after join is not supported yet")
    ELSE [r |-> ExprOk([Advance(o) EXCEPT
                           !.context.selected_tables = Append(@, other_table_name),
                           !.env = register_current_table_fields_types(
                                       register_current_table_fields_types(
                                           @, other_table_name),
                                       table_name)],
                       NoExpr),
          tables |-> <<table_name, other_table_name>>,
          joins |-> <<[right |-> table_name, left |-> other_table_name,
                       kind |-> join_kind]>>]

\* lines 623-639: j is at the `JOIN` keyword
join_table(toks, j, table_name, join_kind) ==
    IF ~token_is(toks, j.pos + 1, "Symbol")
    THEN FromErr(Advance(j), "Expect table name after 'JOIN' keyword")
    ELSE IF toks[j.pos + 1].literal = table_name
    THEN FromErr(Advance(j), "The two tables of join must be unique or have different alias")
    ELSE join_registered(toks, Advance(j), table_name, toks[j.pos + 1].literal, join_kind)

\* the table is selected without a join: its columns are registered
from_one_table(t, table_name) ==
    [r |-> ExprOk([t EXCEPT !.env = register_current_table_fields_types(@, table_name)],
                  NoExpr),
     tables |-> <<table_name>>, joins |-> <<>>]

\* lines 586-662: t is past the name of the table, which is pushed already
parse_join(toks, t, table_name) ==
    IF has_token(toks, t.pos)
    THEN IF is_join_token(toks[t.pos].kind)
         THEN IF toks[t.pos].kind = "Join"
              THEN join_table(toks, t, table_name, "Cross")
              ELSE IF toks[t.pos].kind # "Cross"
              THEN FromErr(t, "Unfortunately only 'CROSS JOIN' is supported for now")
              ELSE IF ~token_is(toks, t.pos + 1, "Join")
              THEN FromErr(Advance(t), "Expect 'JOIN' keyword after Cross, Left, Right, Inner")
              ELSE join_table(toks, Advance(t), table_name, "Cross")
         ELSE from_one_table(t, table_name)
    ELSE from_one_table(t, table_name)

\* lines 552-665: `FROM`, the table name and the join
parse_from(toks, p) ==
    IF ~token_is(toks, p.pos, "From")
    THEN [r |-> ExprOk(p, NoExpr), tables |-> <<>>, joins |-> <<>>]
    ELSE IF ~consume_kind(toks, p.pos + 1, "Symbol")
    THEN FromErr(Advance(p), "Expect 'identifier' as a table name")
    ELSE IF toks[p.pos + 1].literal \notin DOMAIN TablesFieldsNames
    THEN FromErr(Advance(p), "Unresolved table name")
    ELSE parse_join(toks,
            [Advance(Advance(p)) EXCEPT
                !.context.selected_tables = Append(@, toks[p.pos + 1].literal)],
            toks[p.pos + 1].literal)

\* lines 667-720: the checks after the table and the statement that is built
\* the statement is built without the two tests for a missing table
select_statement_build_without_table(is_select_all, fields, from, distinct) ==
    IF from.r.st # "ok" THEN from.r
    ELSE IF ~is_select_all /\ fields.acc.fields_names = <<>>
    THEN ExprErr(from.r, "Incomplete input for select statement")
    ELSE
    LET all_columns == tables_columns(from.tables, 1)
        fields_names == IF is_select_all
                        THEN add_missing(fields.acc.fields_names, all_columns, 1)
                        ELSE fields.acc.fields_names
        c1 == IF is_select_all
              THEN [from.r.context EXCEPT !.selected_fields =
                       @ \o SelectSeq(all_columns,
                              LAMBDA c : ~Contains(fields.acc.fields_names, c))]
              ELSE from.r.context
    IN  StmtOk([from.r EXCEPT !.context = c1],
               [table_selections |->
                    type_check_and_classify_selected_fields(from.tables, fields_names),
                joins |-> from.joins,
                selected_expr_titles |-> fields.acc.selected_expr_titles,
                selected_expr |-> fields.acc.selected_expr,
                distinct |-> distinct])

select_statement_build(is_select_all, fields, from, distinct) ==
    IF from.r.st # "ok" THEN from.r
    ELSE IF from.tables = <<>> /\ from.r.context.aggregations # <<>>
    THEN ExprErr(from.r, "Aggregations functions should be used only with tables")
    ELSE IF is_select_all /\ from.tables = <<>>
    THEN ExprErr(from.r, "Expect 'FROM' and table name after 'SELECT *'")
    ELSE IF ~is_select_all /\ fields.acc.fields_names = <<>>
    THEN ExprErr(from.r, "Incomplete input for select statement")
    ELSE
    LET all_columns == tables_columns(from.tables, 1)
        fields_names == IF is_select_all
                        THEN add_missing(fields.acc.fields_names, all_columns, 1)
                        ELSE fields.acc.fields_names
        c1 == IF is_select_all
              THEN [from.r.context EXCEPT !.selected_fields =
                       @ \o SelectSeq(all_columns,
                              LAMBDA c : ~Contains(fields.acc.fields_names, c))]
              ELSE from.r.context
    IN  StmtOk([from.r EXCEPT !.context = c1],
               [table_selections |->
                    type_check_and_classify_selected_fields(from.tables, fields_names),
                joins |-> from.joins,
                selected_expr_titles |-> fields.acc.selected_expr_titles,
                selected_expr |-> fields.acc.selected_expr,
                distinct |-> distinct])

\* lines 552-665: the selected fields are parsed, the table follows
select_statement_from(toks, is_select_all, fields, distinct) ==
    IF fields.r.st # "ok" THEN fields.r
    ELSE select_statement_build(is_select_all, fields, parse_from(toks, fields.r),
                                distinct)

\* Distinct::None, Distinct::DistinctAll and Distinct::DistinctOn(fields)
Distinct(kind, fields) == [kind |-> kind, fields |-> fields]

\* the name goes to the projection names only
distinct_field_pushed_projection_only(p, literal) ==
    [p EXCEPT !.context.projection_names = Append(@, literal)]

\* lines 753-755: the name goes to the hidden selections and to the
\* projection names
distinct_field_pushed(p, literal) ==
    [p EXCEPT !.context.hidden_selections = Append(@, literal),
              !.context.projection_names = Append(@, literal)]

RECURSIVE distinct_fields_loop(_, _, _)
\* the `while` of lines 747-766
distinct_fields_loop(toks, p, distinct_fields) ==
    IF ~has_token(toks, p.pos) THEN [r |-> ExprOk(p, NoExpr), fields |-> distinct_fields]
    ELSE IF toks[p.pos].kind = "RightParen"
    THEN [r |-> ExprOk(p, NoExpr), fields |-> distinct_fields]
    ELSE IF token_is(toks, p.pos + 1, "Comma")
    THEN distinct_fields_loop(toks,
            [distinct_field_pushed(p, toks[p.pos].literal) EXCEPT !.pos = @ + 2],
            Append(distinct_fields, toks[p.pos].literal))
    ELSE [r |-> ExprOk(Advance(distinct_field_pushed(p, toks[p.pos].literal)), NoExpr),
          fields |-> Append(distinct_fields, toks[p.pos].literal)]

\* lines 768-799: the fields of DISTINCT ON are read
distinct_on_end(toks, d) ==
    IF ~token_is(toks, d.r.pos, "RightParen")
    THEN [r |-> ExprErr(d.r, "Expect ')' after 'DISTINCT ON fields'"),
          distinct |-> Distinct("None", <<>>)]
    ELSE IF d.fields = <<>>
    THEN [r |-> ExprErr(Advance(d.r), "DISTINCT ON(...) must be used with one of more column"),
          distinct |-> Distinct("None", <<>>)]
    ELSE IF token_is(toks, d.r.pos + 1, "Comma")
    THEN [r |-> ExprErr(Advance(d.r), "No need to add Comma ',' after DISTINCT ON"),
          distinct |-> Distinct("None", <<>>)]
    ELSE [r |-> ExprOk(Advance(d.r), NoExpr), distinct |-> Distinct("DistinctOn", d.fields)]

\* p is at the token after `SELECT`, which exists
parse_select_distinct_option(toks, p) ==
    IF toks[p.pos].kind # "Distinct"
    THEN [r |-> ExprOk(p, NoExpr), distinct |-> Distinct("None", <<>>)]
    ELSE IF ~token_is(toks, p.pos + 1, "On")
    THEN [r |-> ExprOk(Advance(p), NoExpr), distinct |-> Distinct("DistinctAll", <<>>)]
    ELSE IF ~token_is(toks, p.pos + 2, "LeftParen")
    THEN [r |-> ExprErr([p EXCEPT !.pos = @ + 2], "Expect '(' after 'DISTINCT ON'"),
          distinct |-> Distinct("None", <<>>)]
    ELSE distinct_on_end(toks, distinct_fields_loop(toks, [p EXCEPT !.pos = @ + 3], <<>>))

\* lines 474-549: the option is read, `*` or the selected fields follow
select_statement_fields(toks, d) ==
    IF d.r.st # "ok" THEN d.r
    ELSE IF token_is(toks, d.r.pos, "Star")
    THEN select_statement_from(toks, TRUE,
            [r |-> ExprOk(Advance(d.r), NoExpr),
             acc |-> [fields_names |-> <<>>, selected_expr_titles |-> <<>>,
                      selected_expr |-> <<>>]],
            d.distinct)
    ELSE select_statement_from(toks, FALSE,
            select_fields_loop(toks, d.r,
                [fields_names |-> <<>>, selected_expr_titles |-> <<>>,
                 selected_expr |-> <<>>]),
            d.distinct)

parse_select_statement(toks, p0) ==
    IF ~has_token(toks, p0.pos + 1)
    THEN ExprErr(Advance(p0), "Incomplete input for select statement")
    ELSE select_statement_fields(toks, parse_select_distinct_option(toks, Advance(p0)))

\* the Boolean check of the WHERE and HAVING conditions
condition_check(message, r) ==
    IF is_expression_type_equals(r.expr, "Boolean") = "NotEqualAndCantImplicitCast"
    THEN [ExprErr(r, message) EXCEPT !.got = r.expr.ty]
    ELSE r

\* lines 826-857 of parse_where_statement: the condition is parsed
where_condition(aggregations_count_before, r) ==
    IF r.st # "ok" THEN r
    ELSE IF is_expression_type_equals(r.expr, "Boolean") = "NotEqualAndCantImplicitCast"
    THEN condition_check("Expect 'WHERE' condition to be type Boolean", r)
    ELSE IF aggregations_count_before # Len(r.context.aggregations)
    THEN ExprErr(r, "Can't use Aggregation functions in 'WHERE' statement")
    ELSE StmtOk(r, [condition |-> r.expr])

parse_where_statement(toks, p0) ==
    IF ~has_token(toks, p0.pos + 1)
    THEN ExprErr(Advance(p0), "Expect expression after 'WHERE' keyword")
    ELSE where_condition(Len(p0.context.aggregations),
                         parse_expression(toks, Advance(p0)))

RECURSIVE group_by_values(_, _, _)

\* the body of the `while` of parse_group_by_statement, e being parsed
group_by_value(toks, values, e) ==
    IF e.st # "ok" THEN [r |-> e, values |-> values]
    ELSE IF token_is(toks, e.pos, "Comma")
    THEN group_by_values(toks, Advance(e), Append(values, e.expr))
    ELSE [r |-> e, values |-> Append(values, e.expr)]

\* the `while` of parse_group_by_statement
group_by_values(toks, p, values) ==
    IF ~has_token(toks, p.pos) THEN [r |-> ExprOk(p, NoExpr), values |-> values]
    ELSE group_by_value(toks, values, parse_expression(toks, p))

\* lines 893-896: has_group_by_statement is set and the statement built
group_by_statement_build(g) ==
    IF g.r.st # "ok" THEN g.r
    ELSE StmtOk([g.r EXCEPT !.context.has_group_by_statement = TRUE],
                [values |-> g.values])

parse_group_by_statement(toks, p0) ==
    IF ~token_is(toks, p0.pos + 1, "By")
    THEN ExprErr(Advance(p0), "Expect keyword 'by' after keyword 'group'")
    ELSE group_by_statement_build(group_by_values(toks, Advance(Advance(p0)), <<>>))

\* lines 918-939 of parse_having_statement: the condition is parsed
having_condition(r) ==
    IF r.st # "ok" THEN r
    ELSE IF is_expression_type_equals(r.expr, "Boolean") = "NotEqualAndCantImplicitCast"
    THEN condition_check("Expect 'HAVING' condition to be type Boolean", r)
    ELSE StmtOk(r, [condition |-> r.expr])

parse_having_statement(toks, p0) ==
    IF ~has_token(toks, p0.pos + 1)
    THEN ExprErr(Advance(p0), "Expect expression after 'HAVING' keyword")
    ELSE having_condition(parse_expression(toks, Advance(p0)))

parse_limit_statement(toks, p0) ==
    LET p == Advance(p0)
    IN  IF ~token_is(toks, p.pos, "Integer")
        THEN ExprErr(p, "Expect number after 'LIMIT' keyword")
        ELSE IF toks[p.pos].literal \notin DOMAIN IntegerValue
        THEN ExprErr(p, "'LIMIT' integer value is too large")
        ELSE StmtOk(Advance(p), [count |-> IntegerValue[toks[p.pos].literal]])

parse_offset_statement(toks, p0) ==
    LET p == Advance(p0)
    IN  IF ~token_is(toks, p.pos, "Integer")
        THEN ExprErr(p, "Expect number after 'OFFSET' keyword")
        ELSE IF toks[p.pos].literal \notin DOMAIN IntegerValue
        THEN ExprErr(p, "'OFFSET' integer value is too large")
        ELSE StmtOk(Advance(p), [count |-> IntegerValue[toks[p.pos].literal]])

RECURSIVE order_by_arguments(_, _, _)

\* the body of the `loop` of parse_order_by_statement, e being parsed
order_by_argument(toks, acc, e) ==
    IF e.st # "ok" THEN [r |-> e, acc |-> acc]
    ELSE LET has_order == has_token(toks, e.pos)
                             /\ toks[e.pos].kind \in {"Ascending", "Descending"}
             order == IF has_order /\ toks[e.pos].kind = "Descending"
                      THEN "Descending" ELSE "Ascending"
             e1 == IF has_order THEN Advance(e) ELSE e
             acc1 == [arguments |-> Append(acc.arguments, e.expr),
                      sorting_orders |-> Append(acc.sorting_orders, order)]
         IN  IF token_is(toks, e1.pos, "Comma")
             THEN order_by_arguments(toks, Advance(e1), acc1)
             ELSE [r |-> e1, acc |-> acc1]

\* the `loop` of parse_order_by_statement
order_by_arguments(toks, p, acc) ==
    order_by_argument(toks, acc, parse_expression(toks, p))

\* lines 1072-1075: the statement is built
order_by_statement_build(o) ==
    IF o.r.st # "ok" THEN o.r ELSE StmtOk(o.r, o.acc)

parse_order_by_statement(toks, p0) ==
    IF ~token_is(toks, p0.pos + 1, "By")
    THEN ExprErr(Advance(p0), "Expect keyword 'BY' after keyword 'ORDER")
    ELSE order_by_statement_build(
            order_by_arguments(toks, Advance(Advance(p0)),
                [arguments |-> <<>>, sorting_orders |-> <<>>]))

\* ------------------------------------------------------ parse_select_query
\* The state of the `while` of parse_select_query: the position, the context,
\* the environment and the clause map, with st = "loop" while the loop runs,
\* "ok" with the query once it is built, "err" with the Diagnostic message,
\* "panic" for an index out of bounds.
NoQuery == [kind |-> "None"]

loop_fail(q, r) ==
    [q EXCEPT !.st = r.st, !.msg = r.msg, !.got = r.got,
              !.pos = r.pos, !.context = r.context, !.env = r.env]

loop_error(q, msg) == [q EXCEPT !.st = "err", !.msg = msg]

\* statements.insert(key, statement)
loop_insert(q, r, key) ==
    [q EXCEPT !.pos = r.pos, !.context = r.context, !.env = r.env,
              !.statements = (key :> r.stmt) @@ @]

\* the `?` on the parsed statement and statements.insert(key, statement)
clause_parsed(q, r, key) ==
    IF r.st # "ok" THEN loop_fail(q, r) ELSE loop_insert(q, r, key)

\* lines 223-226: the select statement is parsed
select_parsed(q, r) ==
    IF r.st # "ok" THEN loop_fail(q, r)
    ELSE [loop_insert(q, r, "select") EXCEPT
             !.context.is_single_value_query = (r.context.aggregations # <<>>),
             !.context.has_select_statement = TRUE]

select_arm(toks, q) ==
    IF "select" \in DOMAIN q.statements
    THEN loop_error(q, "You already used 'SELECT' statement")
    ELSE select_parsed(q, parse_select_statement(toks, q))

\* the WHERE arm without the `contains_key` test
where_arm_unchecked(toks, q) ==
    clause_parsed(q, parse_where_statement(toks, q), "where")

where_arm(toks, q) ==
    IF "where" \in DOMAIN q.statements
    THEN loop_error(q, "You already used 'WHERE' statement")
    ELSE clause_parsed(q, parse_where_statement(toks, q), "where")

group_arm(toks, q) ==
    IF "group" \in DOMAIN q.statements
    THEN loop_error(q, "'You already used 'GROUP BY' statement")
    ELSE clause_parsed(q, parse_group_by_statement(toks, q), "group")

\* the HAVING arm without the test for the `group` key
having_arm_without_group(toks, q) ==
    IF "having" \in DOMAIN q.statements
    THEN loop_error(q, "You already used 'HAVING' statement")
    ELSE clause_parsed(q, parse_having_statement(toks, q), "having")

having_arm(toks, q) ==
    IF "having" \in DOMAIN q.statements
    THEN loop_error(q, "You already used 'HAVING' statement")
    ELSE IF "group" \notin DOMAIN q.statements
    THEN loop_error(q, "'HAVING' must be used after 'GROUP BY' statement")
    ELSE clause_parsed(q, parse_having_statement(toks, q), "having")

\* the shortcut without the `contains_key("offset")` test
limit_offset_shortcut_unchecked(toks, q) ==
    LET c == q.pos + 1
    IN  IF ~token_is(toks, c, "Integer")
        THEN loop_error([q EXCEPT !.pos = c],
                        "Expects 'OFFSET' amount as Integer value after ','")
        ELSE IF toks[c].literal \notin DOMAIN IntegerValue
        THEN loop_error([q EXCEPT !.pos = c], "'OFFSET' integer value is too large")
        ELSE [q EXCEPT !.pos = c + 1,
                       !.statements =
                           ("offset" :> [count |-> IntegerValue[toks[c].literal]]) @@ @]

\* lines 283-338: `LIMIT n` is followed by a comma
limit_offset_shortcut(toks, q) ==
    IF "offset" \in DOMAIN q.statements
    THEN loop_error(q, "You already used 'OFFSET' statement")
    ELSE LET c == q.pos + 1
         IN  IF ~token_is(toks, c, "Integer")
             THEN loop_error([q EXCEPT !.pos = c],
                             "Expects 'OFFSET' amount as Integer value after ','")
             ELSE IF toks[c].literal \notin DOMAIN IntegerValue
             THEN loop_error([q EXCEPT !.pos = c], "'OFFSET' integer value is too large")
             ELSE [q EXCEPT !.pos = c + 1,
                            !.statements =
                                ("offset" :> [count |-> IntegerValue[toks[c].literal]]) @@ @]

\* lines 280-338: the limit statement is parsed
limit_parsed(toks, q, r) ==
    IF r.st # "ok" THEN loop_fail(q, r)
    ELSE IF token_is(toks, r.pos, "Comma")
    THEN limit_offset_shortcut(toks, loop_insert(q, r, "limit"))
    ELSE loop_insert(q, r, "limit")

limit_arm(toks, q) ==
    IF "limit" \in DOMAIN q.statements
    THEN loop_error(q, "You already used 'LIMIT' statement")
    ELSE limit_parsed(toks, q, parse_limit_statement(toks, q))

offset_arm(toks, q) ==
    IF "offset" \in DOMAIN q.statements
    THEN loop_error(q, "You already used 'OFFSET' statement")
    ELSE clause_parsed(q, parse_offset_statement(toks, q), "offset")

order_arm(toks, q) ==
    IF "order" \in DOMAIN q.statements
    THEN loop_error(q, "You already used 'ORDER BY' statement")
    ELSE clause_parsed(q, parse_order_by_statement(toks, q), "order")

not_arm(toks, q) ==
    loop_error(q, "Expects 'REGEXP' or 'IN' expression after this 'NOT' keyword")

RECURSIVE first_free_table(_, _, _, _)
\* the first table from index i on whose schema has the column and that does
\* not list it yet; 0 when there is none
first_free_table(tables, per_table, hidden_selection, i) ==
    IF i > Len(tables) THEN 0
    ELSE IF /\ Contains(TablesFieldsNames[tables[i]], hidden_selection)
            /\ ~Contains(per_table[tables[i]], hidden_selection)
    THEN i
    ELSE first_free_table(tables, per_table, hidden_selection, i + 1)

RECURSIVE classify_loop(_, _, _, _)
classify_loop(tables, hidden_selections, per_table, n) ==
    IF n > Len(hidden_selections) THEN per_table
    ELSE LET i == first_free_table(tables, per_table, hidden_selections[n], 1)
         IN  IF i > 0
             THEN classify_loop(tables, hidden_selections,
                      [per_table EXCEPT ![tables[i]] = Append(@, hidden_selections[n])], n + 1)
             ELSE IF DOMAIN per_table # {}
             THEN classify_loop(tables, hidden_selections,
                      [per_table EXCEPT ![tables[1]] = Append(@, hidden_selections[n])], n + 1)
             ELSE classify_loop(tables, hidden_selections, per_table, n + 1)

classify_hidden_selection(tables, hidden_selections) ==
    classify_loop(tables, hidden_selections,
                  [t \in {tables[i] : i \in 1..Len(tables)} |-> <<>>], 1)

\* lines 384-408: the query is built without the aggregation clause
select_query_finish_without_aggregation(toks, q) ==
    LET statements1 ==
            q.statements
        hidden_selections ==
            SelectSeq(q.context.hidden_selections,
                      LAMBDA n : ~Contains(q.context.selected_fields, n))
    IN  IF ~type_check_projection_symbols(q.context.selected_tables,
                                          q.context.projection_names)
        THEN loop_error([q EXCEPT !.statements = statements1],
                        "Unresolved projection symbol")
        ELSE [q EXCEPT
                !.st = "ok",
                !.statements = statements1,
                !.query =
                    [kind |-> "Select",
                     statements |-> statements1,
                     has_aggregation_function |-> q.context.is_single_value_query,
                     has_group_by_statement |-> q.context.has_group_by_statement,
                     hidden_selections |->
                         classify_hidden_selection(q.context.selected_tables,
                                                   hidden_selections),
                     alias_table |-> q.context.name_alias_table]]

\* lines 376-408: the loop is left and the query is built
select_query_finish(toks, q) ==
    LET statements1 ==
            IF q.context.aggregations # <<>>
            THEN ("aggregation" :> [aggregations |-> q.context.aggregations]) @@ q.statements
            ELSE q.statements
        hidden_selections ==
            SelectSeq(q.context.hidden_selections,
                      LAMBDA n : ~Contains(q.context.selected_fields, n))
    IN  IF ~type_check_projection_symbols(q.context.selected_tables,
                                          q.context.projection_names)
        THEN loop_error([q EXCEPT !.statements = statements1],
                        "Unresolved projection symbol")
        ELSE [q EXCEPT
                !.st = "ok",
                !.statements = statements1,
                !.query =
                    [kind |-> "Select",
                     statements |-> statements1,
                     has_aggregation_function |-> q.context.is_single_value_query,
                     has_group_by_statement |-> q.context.has_group_by_statement,
                     hidden_selections |->
                         classify_hidden_selection(q.context.selected_tables,
                                                   hidden_selections),
                     alias_table |-> q.context.name_alias_table]]

\* the clause keyword a token kind stands for in the `match` of the loop
ClauseKeywords == {"Select", "Where", "Group", "Having", "Limit", "Offset", "Order", "Not"}

\* one turn of the `while` of parse_select_query
select_query_step(toks, q) ==
    IF ~has_token(toks, q.pos) THEN select_query_finish(toks, q)
    ELSE LET kind == toks[q.pos].kind
         IN  CASE kind = "Select" -> select_arm(toks, q)
               [] kind = "Where" -> where_arm(toks, q)
               [] kind = "Group" -> group_arm(toks, q)
               [] kind = "Having" -> having_arm(toks, q)
               [] kind = "Limit" -> limit_arm(toks, q)
               [] kind = "Offset" -> offset_arm(toks, q)
               [] kind = "Order" -> order_arm(toks, q)
               [] kind = "Not" -> not_arm(toks, q)
               [] OTHER -> select_query_finish(toks, q)

RECURSIVE select_query_loop(_, _)
select_query_loop(toks, q) ==
    IF q.st # "loop" THEN q ELSE select_query_loop(toks, select_query_step(toks, q))

\* the state parse_select_query starts its loop from
select_query_start(env0) ==
    [pos |-> 1, context |-> DefaultContext, env |-> env0, statements |-> <<>>,
     st |-> "loop", msg |-> "", got |-> "", query |-> NoQuery]

parse_select_query(toks, env0) == select_query_loop(toks, select_query_start(env0))

\* ------------------------------------------------------------ DO and SET
\* lines 88-89 of parse_do_query: the expression is parsed
do_query_build(q, r) ==
    IF r.st # "ok"
    THEN [q EXCEPT !.st = r.st, !.msg = r.msg, !.got = r.got, !.pos = r.pos,
                   !.env = r.env]
    ELSE [q EXCEPT !.st = "ok", !.pos = r.pos, !.env = r.env,
                   !.query = [kind |-> "Do", expression |-> r.expr]]

\* parse_do_query: the expression has a ParserContext of its own
parse_do_query(toks, q) ==
    IF ~has_token(toks, q.pos + 1)
    THEN loop_error([q EXCEPT !.pos = @ + 1],
                    "Expect expression after Do Statement keyword")
    ELSE do_query_build(q, parse_expression(toks,
                               [pos |-> q.pos + 1, context |-> DefaultContext,
                                env |-> q.env]))

\* lines 126-145 of parse_set_query: the value is parsed
set_query_build(name, q, r) ==
    IF r.st # "ok"
    THEN [q EXCEPT !.st = r.st, !.msg = r.msg, !.got = r.got, !.pos = r.pos,
                   !.env = r.env]
    ELSE IF r.context.aggregations # <<>>
    THEN [q EXCEPT !.st = "err", !.pos = r.pos, !.env = r.env,
                   !.msg = "Aggregation value can't be assigned to global variable"]
    ELSE [q EXCEPT !.st = "ok", !.pos = r.pos,
                   !.env = env_define_global(r.env, name, r.expr.ty),
                   !.query = [kind |-> "GlobalVariableDeclaration", name |-> name,
                              value |-> r.expr]]

is_assignment_operator(kind) == kind \in {"Equal", "ColonEqual"}

parse_set_query(toks, q) ==
    IF ~token_is(toks, q.pos + 1, "GlobalVariable")
    THEN loop_error([q EXCEPT !.pos = @ + 1],
                    "Expect Global variable name start with '@' after 'SET' keyword")
    ELSE IF ~has_token(toks, q.pos + 2)
    THEN loop_error([q EXCEPT !.pos = @ + 2],
                    "Expect '=' or ':=' and Value after Variable name")
    ELSE IF ~is_assignment_operator(toks[q.pos + 2].kind)
    THEN loop_error([q EXCEPT !.pos = @ + 2],
                    "Expect '=' or ':=' and Value after Variable name")
    ELSE set_query_build(toks[q.pos + 1].literal, q,
            parse_expression(toks, [pos |-> q.pos + 3, context |-> DefaultContext,
                                    env |-> q.env]))

\* what parse_gql hands back: the query or the message of the Diagnostic
Returned(st, msg, query) == [st |-> st, msg |-> msg, query |-> query]

NotReturned == Returned("none", "", NoQuery)

\* str::to_uppercase on the literal of the first token
ToUppercase ==
    [l \in {"select", "do", "set"} |->
        IF l = "select" THEN "SELECT" ELSE IF l = "do" THEN "DO" ELSE "SET"]

\* the message of un_expected_content_after_correct_statement(statement_name)
un_expected_content_after_correct_statement(statement_name) ==
    IF ToUppercase[statement_name] = "SELECT"
    THEN "Unexpected content after the end of 'SELECT' statement"
    ELSE IF ToUppercase[statement_name] = "DO"
    THEN "Unexpected content after the end of 'DO' statement"
    ELSE "Unexpected content after the end of 'SET' statement"

\* lines 52-68 with every `;` after the statement consumed
RECURSIVE skip_semicolons(_, _)
skip_semicolons(toks, pos) ==
    IF token_is(toks, pos, "Semicolon") THEN skip_semicolons(toks, pos + 1) ELSE pos

parse_gql_finish_all_semicolons(toks, q) ==
    LET pos == skip_semicolons(toks, q.pos)
    IN  IF q.st = "ok" /\ pos <= Len(toks)
        THEN [q EXCEPT !.pos = pos, !.st = "err",
                       !.msg = un_expected_content_after_correct_statement(toks[1].literal)]
        ELSE [q EXCEPT !.pos = pos]

\* lines 52-68: the optional `;` and the content after the statement
parse_gql_finish(toks, q) ==
    LET pos == IF token_is(toks, q.pos, "Semicolon") THEN q.pos + 1 ELSE q.pos
    IN  IF q.st = "ok" /\ pos <= Len(toks)
        THEN [q EXCEPT !.pos = pos, !.st = "err",
                       !.msg = un_expected_content_after_correct_statement(toks[1].literal)]
        ELSE [q EXCEPT !.pos = pos]

\* what parse_gql returns for the result q of the statement
parse_gql_return(f) ==
    Returned(f.st, f.msg, IF f.st = "ok" THEN f.query ELSE NoQuery)

\* lines 52-68 for the result q of the statement; a panic is never caught
parse_gql_end(toks, q) ==
    IF q.st = "panic"
    THEN Returned("panic", q.msg, NoQuery)
    ELSE parse_gql_return(parse_gql_finish(toks, q))

\* parse_gql as a function of the tokens
parse_gql(toks, env0) ==
    IF Len(toks) = 0
    THEN \* tokens[0] of an empty vector
         Returned("panic", "index out of bounds", NoQuery)
    ELSE IF toks[1].kind = "Do"
    THEN parse_gql_end(toks, parse_do_query(toks, select_query_start(env0)))
    ELSE IF toks[1].kind = "Set"
    THEN parse_gql_end(toks, parse_set_query(toks, select_query_start(env0)))
    ELSE IF toks[1].kind = "Select"
    THEN parse_gql_end(toks, parse_select_query(toks, env0))
    ELSE parse_gql_end(toks, loop_error(select_query_start(env0), "Unexpected statement"))

\* ------------------------------------------------------- parser as a machine
\* The token sequences handed to parse_gql: one of these beginnings (no token
\* at all, a first token that starts no statement, `SELECT` with and without
\* a selected expression, complete or cut short) ...
Heads ==
    << <<>>,
      <<Tok("Integer", "1")>>,
      <<Tok("Select", "select")>>,
      <<Tok("Select", "select"), Tok("Integer", "1")>>,
      <<Tok("Select", "select"), Tok("LeftParen", "("), Tok("Integer", "1")>>,
      <<Tok("Select", "select"), Tok("LeftParen", "("), Tok("Integer", "1"),
        Tok("RightParen", ")")>>,
      <<Tok("Select", "select"), Tok("Integer", "1"), Tok("BitwiseOr", "|"),
        Tok("String", "text")>>,
      <<Tok("Select", "select"), Tok("True", "true"), Tok("LogicalOr", "||"),
        Tok("True", "true")>>,
      <<Tok("Select", "select"), Tok("True", "true"), Tok("LogicalAnd", "&&"),
        Tok("Integer", "1")>> >>

\* ... followed by up to MaxFragments of these pieces, one after the other
Fragments ==
    << <<Tok("Where", "where"), Tok("True", "true")>>,
      <<Tok("Group", "group"), Tok("By", "by"), Tok("Integer", "1")>>,
      <<Tok("Having", "having"), Tok("True", "true")>>,
      <<Tok("Order", "order"), Tok("By", "by"), Tok("Integer", "1")>>,
      <<Tok("Limit", "limit"), Tok("Integer", "1")>>,
      <<Tok("Limit", "limit"), Tok("Integer", "1"), Tok("Comma", ","), Tok("Integer", "3")>>,
      <<Tok("Offset", "offset"), Tok("Integer", "2")>>,
      <<Tok("Not", "not")>>,
      <<Tok("Semicolon", ";")>>,
      <<Tok("Comma", ",")>>,
      <<Tok("Integer", "3")>> >>

RECURSIVE Flatten(_)
Flatten(seqs) == IF seqs = <<>> THEN <<>> ELSE Head(seqs) \o Flatten(Tail(seqs))

\* the tokens of beginning h followed by the pieces fs
TokenInput(h, fs) == Heads[h] \o Flatten([i \in DOMAIN fs |-> Fragments[fs[i]]])

EngineIdle ==
    /\ repos = 0
    /\ statements_map = {}
    /\ select_aggregations_only = FALSE
    /\ groups = <<>>
    /\ e_pc = "idle"
    /\ gql_command = 1
    /\ repo_index = 1
    /\ executed = <<>>
    /\ eval_result = NoResult

InitParser ==
    /\ \E h \in DOMAIN Heads, n \in 0..MaxFragments :
          \E fs \in [1..n -> DOMAIN Fragments] : tokens = TokenInput(h, fs)
    /\ position = 1
    /\ context = DefaultContext
    /\ env = InitialEnv
    /\ statements = <<>>
    /\ p_pc = "start"
    /\ query_result = NotReturned
    /\ returned = NotReturned
    /\ EngineIdle
    /\ ValuesIdle

\* the state of the loop of parse_select_query, read from the variables
Cur ==
    [pos |-> position, context |-> context, env |-> env, statements |-> statements,
     st |-> "loop", msg |-> "", got |-> "", query |-> NoQuery]

\* the variables after one turn of the loop
ApplyLoop(q) ==
    /\ position' = q.pos
    /\ context' = q.context
    /\ env' = q.env
    /\ statements' = q.statements
    /\ CASE q.st = "loop" ->
              /\ p_pc' = "select_query"
              /\ UNCHANGED <<query_result, returned>>
         [] q.st = "panic" ->
              /\ p_pc' = "done"
              /\ returned' = Returned("panic", q.msg, NoQuery)
              /\ UNCHANGED query_result
         [] OTHER ->
              /\ p_pc' = "finish"
              /\ query_result' = Returned(q.st, q.msg, q.query)
              /\ UNCHANGED returned
    /\ UNCHANGED <<tokens, engine_vars, value_vars>>

\* lines 41-50: the first token chooses the statement
ParseGqlDispatch ==
    /\ p_pc = "start"
    /\ IF Len(tokens) = 0
       THEN /\ p_pc' = "done"
            /\ returned' = Returned("panic", "index out of bounds", NoQuery)
            /\ UNCHANGED <<tokens, position, context, env, statements, query_result,
                           engine_vars, value_vars>>
       ELSE IF tokens[1].kind = "Do"
       THEN ApplyLoop(parse_do_query(tokens, Cur))
       ELSE IF tokens[1].kind = "Set"
       THEN ApplyLoop(parse_set_query(tokens, Cur))
       ELSE IF tokens[1].kind = "Select"
       THEN /\ p_pc' = "select_query"
            /\ UNCHANGED <<tokens, position, context, env, statements, query_result,
                           returned, engine_vars, value_vars>>
       ELSE /\ p_pc' = "finish"
            /\ query_result' = Returned("err", "Unexpected statement", NoQuery)
            /\ UNCHANGED <<tokens, position, context, env, statements, returned,
                           engine_vars, value_vars>>

SelectClause ==
    /\ p_pc = "select_query"
    /\ token_is(tokens, position, "Select")
    /\ ApplyLoop(select_arm(tokens, Cur))

WhereClause ==
    /\ p_pc = "select_query"
    /\ token_is(tokens, position, "Where")
    /\ ApplyLoop(where_arm(tokens, Cur))

GroupClause ==
    /\ p_pc = "select_query"
    /\ token_is(tokens, position, "Group")
    /\ ApplyLoop(group_arm(tokens, Cur))

HavingClause ==
    /\ p_pc = "select_query"
    /\ token_is(tokens, position, "Having")
    /\ ApplyLoop(having_arm(tokens, Cur))

LimitClause ==
    /\ p_pc = "select_query"
    /\ token_is(tokens, position, "Limit")
    /\ ApplyLoop(limit_arm(tokens, Cur))

OffsetClause ==
    /\ p_pc = "select_query"
    /\ token_is(tokens, position, "Offset")
    /\ ApplyLoop(offset_arm(tokens, Cur))

OrderClause ==
    /\ p_pc = "select_query"
    /\ token_is(tokens, position, "Order")
    /\ ApplyLoop(order_arm(tokens, Cur))

NotKeyword ==
    /\ p_pc = "select_query"
    /\ token_is(tokens, position, "Not")
    /\ ApplyLoop(not_arm(tokens, Cur))

\* the loop ends (no token left, or the arm _ => break) and the query is built
EndOfClauses ==
    /\ p_pc = "select_query"
    /\ IF has_token(tokens, position)
       THEN tokens[position].kind \notin ClauseKeywords
       ELSE TRUE
    /\ ApplyLoop(select_query_finish(tokens, Cur))

\* lines 52-68
ParseGqlFinish ==
    /\ p_pc = "finish"
    /\ LET f == parse_gql_finish(tokens,
                   [Cur EXCEPT !.st = query_result.st, !.msg = query_result.msg,
                               !.query = query_result.query])
       IN  /\ position' = f.pos
           /\ returned' = Returned(f.st, f.msg, IF f.st = "ok" THEN f.query ELSE NoQuery)
    /\ p_pc' = "done"
    /\ UNCHANGED <<tokens, context, env, statements, query_result, engine_vars, value_vars>>

NextParser ==
    \/ ParseGqlDispatch
    \/ SelectClause
    \/ WhereClause
    \/ GroupClause
    \/ HavingClause
    \/ LimitClause
    \/ OffsetClause
    \/ OrderClause
    \/ NotKeyword
    \/ EndOfClauses
    \/ ParseGqlFinish

SpecParser == InitParser /\ [][NextParser]_vars

\* ------------------------------------------- queries with tables and functions
\* A second family of token sequences for parse_gql: statements over the
\* tables of the schema, with aggregations, aliases, DISTINCT ON, joins,
\* global variables and CASE, followed by up to MaxClauses clauses.
Sym(name) == Tok("Symbol", name)

Integer(literal) == Tok("Integer", literal)

LeftParen == Tok("LeftParen", "(")

RightParen == Tok("RightParen", ")")

SelectKeyword == Tok("Select", "select")

DoKeyword == Tok("Do", "do")

\* count(name)
CountName == <<Sym("count"), LeftParen, Sym("name"), RightParen>>

\* count(name) > 0
CountNamePositive == CountName \o <<Tok("Greater", ">"), Integer("0")>>

FromTable(table_name) == <<Tok("From", "from"), Sym(table_name)>>

\* DISTINCT ON (name)
DistinctOnName == <<Tok("Distinct", "distinct"), Tok("On", "on"), LeftParen, Sym("name"),
                    RightParen>>

\* CASE WHEN condition THEN value
CaseWhen(condition, value) ==
    <<Tok("Case", "case"), Tok("When", "when"), condition, Tok("Then", "then"), value>>

ElseEnd(value) == <<Tok("Else", "else"), value, Tok("End", "end")>>

QueryHeads ==
    << <<SelectKeyword, Sym("name")>> \o FromTable("commits"),
      <<SelectKeyword>> \o CountName \o FromTable("commits"),
      <<SelectKeyword>> \o CountName,
      <<SelectKeyword, Tok("Star", "*")>>,
      <<SelectKeyword, Tok("Star", "*")>> \o FromTable("commits"),
      <<SelectKeyword>> \o CountName \o <<Tok("As", "as"), Sym("c")>> \o FromTable("commits"),
      <<SelectKeyword>> \o DistinctOnName \o <<Sym("name")>> \o FromTable("commits"),
      <<SelectKeyword>> \o DistinctOnName \o <<Sym("commit_id")>> \o FromTable("commits"),
      <<SelectKeyword, Tok("Star", "*")>> \o FromTable("commits")
          \o <<Tok("Join", "join"), Sym("nosuch")>>,
      <<SelectKeyword, Tok("Star", "*")>> \o FromTable("nosuch"),
      <<SelectKeyword, Tok("Star", "*")>> \o FromTable("commits")
          \o <<Tok("Join", "join"), Sym("branches")>>,
      <<SelectKeyword, Tok("GlobalVariable", "@v"), Tok("ColonEqual", ":=")>> \o CountName
          \o FromTable("commits"),
      <<Tok("Set", "set"), Tok("GlobalVariable", "@v"), Tok("Equal", "=")>> \o CountName,
      <<Tok("Set", "set"), Tok("GlobalVariable", "@v"), Tok("Equal", "="), Integer("1")>>,
      <<DoKeyword, Tok("GlobalVariable", "@v"), Tok("ColonEqual", ":=")>> \o CountName,
      <<DoKeyword, Tok("GlobalVariable", "@v"), Tok("ColonEqual", ":="), Integer("1")>>,
      <<SelectKeyword, Sym("commit_count"), Tok("As", "as"), Sym("cc")>> \o FromTable("branches"),
      <<DoKeyword, Tok("Case", "case")>> \o ElseEnd(Integer("1")),
      <<DoKeyword>> \o CaseWhen(Tok("True", "true"), Integer("1")) \o ElseEnd(Tok("String", "text")),
      <<DoKeyword>> \o CaseWhen(Tok("True", "true"), Integer("1")) \o ElseEnd(Integer("2")),
      <<DoKeyword>> \o CaseWhen(Integer("1"), Integer("1")) \o ElseEnd(Integer("2")),
      <<DoKeyword>> \o CaseWhen(Tok("True", "true"), Integer("1")) \o <<Tok("End", "end")>>,
      <<DoKeyword>> \o CaseWhen(Tok("True", "true"), Integer("1"))
          \o <<Tok("When", "when"), Tok("False", "false"), Tok("Then", "then"),
               Tok("String", "text")>>
          \o ElseEnd(Integer("1")),
      <<DoKeyword, Sym("lower"), LeftParen, Tok("String", "text"), RightParen>>,
      <<SelectKeyword, Sym("commit_id")>> \o FromTable("commits")
          \o <<Tok("Join", "join"), Sym("branches")>>,
      <<SelectKeyword, Sym("name"), Tok("Comma", ","), Sym("name")>> \o FromTable("commits"),
      <<SelectKeyword, Sym("name"), Tok("As", "as"), Sym("name")>> \o FromTable("commits"),
      <<SelectKeyword, Sym("commit_id"), Tok("As", "as"), Sym("name"), Tok("Comma", ","),
        Sym("name")>> \o FromTable("commits") >>

QueryFragments ==
    << <<Tok("Where", "where")>> \o CountNamePositive,
      <<Tok("Where", "where")>> \o CountName,
      <<Tok("Where", "where"), LeftParen>> \o CountNamePositive \o <<RightParen>>,
      <<Tok("Where", "where"), Sym("c"), Tok("Greater", ">"), Integer("0")>>,
      <<Tok("Where", "where"), Sym("commit_count"), Tok("Greater", ">"), Integer("0")>>,
      <<Tok("Where", "where"), Sym("nosuch")>>,
      <<Tok("Group", "group"), Tok("By", "by"), Sym("name")>>,
      <<Tok("Having", "having")>> \o CountNamePositive,
      <<Tok("Order", "order"), Tok("By", "by")>> \o CountName,
      <<Tok("Order", "order"), Tok("By", "by"), Sym("commit_count")>>,
      <<Tok("Limit", "limit"), Integer("1")>>,
      <<Tok("Offset", "offset"), Integer("2")>>,
      <<Tok("Not", "not")>>,
      <<Tok("Semicolon", ";")>> >>

\* DO a o1 b o2 c: two binary operators between three literals
ExprOperands == <<Integer("1"), Tok("True", "true"), Tok("String", "text")>>

ExprOperators ==
    <<Tok("LogicalOr", "||"), Tok("LogicalAnd", "&&"), Tok("BitwiseOr", "|"),
      Tok("LogicalXor", "^"), Tok("BitwiseAnd", "&"), Tok("Equal", "="),
      Tok("Greater", ">"), Tok("BitwiseLeftShift", "<<"), Tok("BitwiseRightShift", ">>"),
      Tok("Plus", "+"), Tok("Minus", "-"), Tok("Star", "*")>>

TwoOperators(a, o1, b, o2, c) ==
    <<DoKeyword, ExprOperands[a], ExprOperators[o1], ExprOperands[b], ExprOperators[o2],
      ExprOperands[c]>>

\* the tokens of beginning h of QueryHeads followed by the pieces fs
QueryInput(h, fs) == QueryHeads[h] \o Flatten([i \in DOMAIN fs |-> QueryFragments[fs[i]]])

InitQueries ==
    /\ \/ \E h \in DOMAIN QueryHeads, n \in 0..MaxClauses :
             \E fs \in [1..n -> DOMAIN QueryFragments] : tokens = QueryInput(h, fs)
       \/ \E a \in DOMAIN ExprOperands, b \in DOMAIN ExprOperands,
             c \in DOMAIN ExprOperands :
             \E o1 \in DOMAIN ExprOperators, o2 \in DOMAIN ExprOperators :
                tokens = TwoOperators(a, o1, b, o2, c)
    /\ position = 1
    /\ context = DefaultContext
    /\ env = InitialEnv
    /\ statements = <<>>
    /\ p_pc = "start"
    /\ query_result = NotReturned
    /\ returned = NotReturned
    /\ EngineIdle
    /\ ValuesIdle

SpecQueries == InitQueries /\ [][NextParser]_vars

\* ------------------------------------------------------------ values and types
\* a value of the engine: Int, Date, Text, Null, or an Array with the type of
\* its elements
IntValue(n) == [kind |-> "Int", value |-> n, element_type |-> "", elements |-> <<>>]
DateValue(timestamp) ==
    [kind |-> "Date", value |-> timestamp, element_type |-> "", elements |-> <<>>]
BoolValue(b) == [kind |-> "Bool", value |-> b, element_type |-> "", elements |-> <<>>]
TextValue == [kind |-> "Text", value |-> "text", element_type |-> "", elements |-> <<>>]
NullValue == [kind |-> "Null", value |-> 0, element_type |-> "", elements |-> <<>>]
ArrayValue(element_type, elements) ==
    [kind |-> "Array", value |-> 0, element_type |-> element_type, elements |-> elements]

ValueOk(v) == [st |-> "Ok", value |-> v, msg |-> ""]
ValueErr(msg) == [st |-> "Err", value |-> NullValue, msg |-> msg]
NotCalled == [st |-> "none", value |-> NullValue, msg |-> ""]

\* Value::as_int: Some(n) for an IntValue, None otherwise
as_int_is_some(other) == other.kind = "Int"

\* other.is_array_of(|element_type| element_type.is_date())
is_array_of_date(other) == other.kind = "Array" /\ other.element_type = "Date"

\* lines 53-60
DateValue_add_op(self, other) ==
    IF as_int_is_some(other)
    THEN ValueOk(DateValue(self.value + other.value * 24 * 60 * 60))
    ELSE ValueErr("Unexpected type to perform '+' with")

\* the integer is subtracted as seconds
DateValue_sub_op_seconds(self, other) ==
    IF as_int_is_some(other)
    THEN ValueOk(DateValue(self.value - other.value))
    ELSE ValueErr("Unexpected type to perform '-' with")

\* lines 62-69
DateValue_sub_op(self, other) ==
    IF as_int_is_some(other)
    THEN ValueOk(DateValue(self.value - other.value * 24 * 60 * 60))
    ELSE ValueErr("Unexpected type to perform '-' with")

\* lines 71-78
DateValue_eq_op(self, other) ==
    IF other.kind = "Date" THEN ValueOk(BoolValue(self.value = other.value))
    ELSE ValueErr("Unexpected type to perform '=' with")

\* lines 107-114
DateValue_bang_eq_op(self, other) ==
    IF other.kind = "Date" THEN ValueOk(BoolValue(self.value # other.value))
    ELSE ValueErr("Unexpected type to perform '!=' with")

\* lines 143-150
DateValue_gt_op(self, other) ==
    IF other.kind = "Date" THEN ValueOk(BoolValue(self.value > other.value))
    ELSE ValueErr("Unexpected type to perform '>' with")

\* lines 179-186
DateValue_gte_op(self, other) ==
    IF other.kind = "Date" THEN ValueOk(BoolValue(self.value >= other.value))
    ELSE ValueErr("Unexpected type to perform '>=' with")

\* lines 215-222
DateValue_lt_op(self, other) ==
    IF other.kind = "Date" THEN ValueOk(BoolValue(self.value < other.value))
    ELSE ValueErr("Unexpected type to perform '<' with")

\* lines 251-258
DateValue_lte_op(self, other) ==
    IF other.kind = "Date" THEN ValueOk(BoolValue(self.value <= other.value))
    ELSE ValueErr("Unexpected type to perform '<=' with")

\* the test 'self.timestamp <cmp> element.as_date().unwrap()' of a group
\* operator, cmp being the comparison written in its source
timestamp_matches(cmp, timestamp, element) ==
    CASE cmp = "==" -> timestamp = element
      [] cmp = "!=" -> timestamp # element
      [] cmp = ">" -> timestamp > element
      [] cmp = ">=" -> timestamp >= element
      [] cmp = "<" -> timestamp < element

RECURSIVE matches_count_loop(_, _, _, _, _, _)
\* 'for element in elements.iter()': matches are counted from element i on,
\* and the loop is left at the first match when the quantifier is Any
matches_count_loop(cmp, timestamp, elements, group_op, i, matches_count) ==
    IF i > Len(elements) THEN matches_count
    ELSE IF timestamp_matches(cmp, timestamp, elements[i])
    THEN IF group_op = "Any" THEN matches_count + 1
         ELSE matches_count_loop(cmp, timestamp, elements, group_op, i + 1,
                                 matches_count + 1)
    ELSE matches_count_loop(cmp, timestamp, elements, group_op, i + 1, matches_count)

\* 'match group_op { All => matches_count == elements.len(), Any => matches_count > 0 }'
group_result(group_op, matches_count, len) ==
    ValueOk(BoolValue(IF group_op = "All" THEN matches_count = len ELSE matches_count > 0))

\* lines 80-105
DateValue_group_eq_op(self, other, group_op) ==
    IF is_array_of_date(other)
    THEN group_result(group_op,
            matches_count_loop("==", self.value, other.elements, group_op, 1, 0),
            Len(other.elements))
    ELSE ValueErr("Unexpected type to perform '=' with")

\* lines 116-141
DateValue_group_bang_eq_op(self, other, group_op) ==
    IF is_array_of_date(other)
    THEN group_result(group_op,
            matches_count_loop("!=", self.value, other.elements, group_op, 1, 0),
            Len(other.elements))
    ELSE ValueErr("Unexpected type to perform '!=' with")

\* lines 152-177
DateValue_group_gt_op(self, other, group_op) ==
    IF is_array_of_date(other)
    THEN group_result(group_op,
            matches_count_loop(">", self.value, other.elements, group_op, 1, 0),
            Len(other.elements))
    ELSE ValueErr("Unexpected type to perform '>' with")

\* group_gte_op testing 'self.timestamp > element'
DateValue_group_gte_op_strict(self, other, group_op) ==
    IF is_array_of_date(other)
    THEN group_result(group_op,
            matches_count_loop(">", self.value, other.elements, group_op, 1, 0),
            Len(other.elements))
    ELSE ValueErr("Unexpected type to perform '>=' with")

\* lines 188-213
DateValue_group_gte_op(self, other, group_op) ==
    IF is_array_of_date(other)
    THEN group_result(group_op,
            matches_count_loop(">=", self.value, other.elements, group_op, 1, 0),
            Len(other.elements))
    ELSE ValueErr("Unexpected type to perform '>=' with")

\* lines 224-249
DateValue_group_lt_op(self, other, group_op) ==
    IF is_array_of_date(other)
    THEN group_result(group_op,
            matches_count_loop("<", self.value, other.elements, group_op, 1, 0),
            Len(other.elements))
    ELSE ValueErr("Unexpected type to perform '<' with")

\* group_lte_op testing 'self.timestamp <= element', which for whole seconds
\* is 'self.timestamp - 1 < element'
DateValue_group_lte_op_non_strict(self, other, group_op) ==
    IF is_array_of_date(other)
    THEN group_result(group_op,
            matches_count_loop("<", self.value - 1, other.elements, group_op, 1, 0),
            Len(other.elements))
    ELSE ValueErr("Unexpected type to perform '<=' with")

\* lines 260-285: line 269 tests 'self.timestamp < element'
DateValue_group_lte_op(self, other, group_op) ==
    IF is_array_of_date(other)
    THEN group_result(group_op,
            matches_count_loop("<", self.value, other.elements, group_op, 1, 0),
            Len(other.elements))
    ELSE ValueErr("Unexpected type to perform '<=' with")

\* a data type: a plain type, Array(element type) or Variant(alternatives)
Type(kind, args) == [kind |-> kind, args |-> args]

\* DataType::is_any, DataType::is_float
is_any(t) == t.kind = "Any"
is_float(t) == t.kind = "Float"

\* other.is_variant_with(|t| t.is_float())
is_variant_with_float(t) ==
    t.kind = "Variant" /\ \E i \in 1..Len(t.args) : is_float(t.args[i])

\* Any is not accepted
FloatType_equals_without_any(other) ==
    is_float(other) \/ is_variant_with_float(other)

\* float.rs lines 15-17
FloatType_equals(other) ==
    is_any(other) \/ is_float(other) \/ is_variant_with_float(other)

\* the timestamps, the numbers of days and the arrays of the calls
Timestamps == (0 - MaxTimestamp)..MaxTimestamp
Days == (0 - MaxDays)..MaxDays
SeqsUpTo(S, n) == UNION {[1..k -> S] : k \in 0..n}

\* the right operands handed to the methods of a Date
Operands ==
    {IntValue(n) : n \in Days}
    \cup {DateValue(t) : t \in Timestamps}
    \cup {TextValue, NullValue}
    \cup {ArrayValue("Date", e) : e \in SeqsUpTo(Timestamps, MaxElements)}
    \cup {ArrayValue("Int", e) : e \in SeqsUpTo(Days, 1)}

ArithmeticMethods == {"add_op", "sub_op"}
ComparisonMethods == {"eq_op", "bang_eq_op", "gt_op", "gte_op", "lt_op", "lte_op"}
GroupMethods ==
    {"group_eq_op", "group_bang_eq_op", "group_gt_op", "group_gte_op", "group_lt_op",
     "group_lte_op"}

\* the types handed to FloatType::equals
PlainTypes ==
    {Type(k, <<>>) : k \in {"Any", "Float", "Integer", "Text", "Boolean", "Null", "Date",
                            "Time", "DateTime"}}
ArrayTypes == {Type("Array", <<t>>) : t \in PlainTypes}
VariantTypes ==
    {Type("Variant", a) :
        a \in SeqsUpTo(PlainTypes \cup {Type("Array", <<Type("Float", <<>>)>>)},
                       MaxAlternatives)}
Types == PlainTypes \cup ArrayTypes \cup VariantTypes

Call(method, self, other, group_op) ==
    [method |-> method, self |-> self, other |-> other, group_op |-> group_op]

InitValues ==
    /\ \/ \E m \in ArithmeticMethods \cup ComparisonMethods, t \in Timestamps :
             \E other \in Operands : value_call = Call(m, DateValue(t), other, "")
       \/ \E m \in GroupMethods, t \in Timestamps, group_op \in {"All", "Any"} :
             \E other \in Operands : value_call = Call(m, DateValue(t), other, group_op)
       \/ \E other \in Types : value_call = Call("equals", Type("Float", <<>>), other, "")
    /\ value_result = NotCalled
    /\ EngineIdle
    /\ ParserIdle

\* date.rs lines 53-69: '+' and '-' of a Date
DateArithmetic ==
    /\ value_result = NotCalled
    /\ value_call.method \in ArithmeticMethods
    /\ value_result' = IF value_call.method = "add_op"
                       THEN DateValue_add_op(value_call.self, value_call.other)
                       ELSE DateValue_sub_op(value_call.self, value_call.other)
    /\ UNCHANGED <<value_call, engine_vars, parser_vars>>

\* the comparisons of a Date with one value
DateComparison ==
    /\ value_result = NotCalled
    /\ value_call.method \in ComparisonMethods
    /\ value_result' =
          CASE value_call.method = "eq_op" ->
                  DateValue_eq_op(value_call.self, value_call.other)
            [] value_call.method = "bang_eq_op" ->
                  DateValue_bang_eq_op(value_call.self, value_call.other)
            [] value_call.method = "gt_op" ->
                  DateValue_gt_op(value_call.self, value_call.other)
            [] value_call.method = "gte_op" ->
                  DateValue_gte_op(value_call.self, value_call.other)
            [] value_call.method = "lt_op" ->
                  DateValue_lt_op(value_call.self, value_call.other)
            [] value_call.method = "lte_op" ->
                  DateValue_lte_op(value_call.self, value_call.other)
    /\ UNCHANGED <<value_call, engine_vars, parser_vars>>

\* the comparisons of a Date with the elements of an array
DateGroupComparison ==
    /\ value_result = NotCalled
    /\ value_call.method \in GroupMethods
    /\ value_result' =
          CASE value_call.method = "group_eq_op" ->
                  DateValue_group_eq_op(value_call.self, value_call.other,
                                        value_call.group_op)
            [] value_call.method = "group_bang_eq_op" ->
                  DateValue_group_bang_eq_op(value_call.self, value_call.other,
                                             value_call.group_op)
            [] value_call.method = "group_gt_op" ->
                  DateValue_group_gt_op(value_call.self, value_call.other,
                                        value_call.group_op)
            [] value_call.method = "group_gte_op" ->
                  DateValue_group_gte_op(value_call.self, value_call.other,
                                         value_call.group_op)
            [] value_call.method = "group_lt_op" ->
                  DateValue_group_lt_op(value_call.self, value_call.other,
                                        value_call.group_op)
            [] value_call.method = "group_lte_op" ->
                  DateValue_group_lte_op(value_call.self, value_call.other,
                                         value_call.group_op)
    /\ UNCHANGED <<value_call, engine_vars, parser_vars>>

\* float.rs lines 15-17
FloatEquals ==
    /\ value_result = NotCalled
    /\ value_call.method = "equals"
    /\ value_result' = ValueOk(BoolValue(FloatType_equals(value_call.other)))
    /\ UNCHANGED <<value_call, engine_vars, parser_vars>>

NextValues == DateArithmetic \/ DateComparison \/ DateGroupComparison \/ FloatEquals

SpecValues == InitValues /\ [][NextValues]_vars

\* ------------------------------------------------------------ parser properties
\* C6: for every token sequence, the empty one and the ones that stop in the
\* middle of a statement or an expression included, parse_gql returns a Query
\* or a Diagnostic: it never reads a token past the end of the tokens.
C6_NeverOutOfBounds == returned.st # "panic"

\* the tokens left when the statement has been parsed
TokensLeft == Len(tokens) - position + 1

\* C7: when the statement parsed and nothing or exactly one `;` follows it,
\* parse_gql returns the parsed Query; when any token is left after the
\* statement and its one optional `;`, a second `;` included, parse_gql returns
\* the unexpected-content Diagnostic and no Query.
C7_TrailingContent ==
    [][(p_pc = "finish" /\ query_result.st = "ok") =>
          IF \/ TokensLeft = 0
             \/ TokensLeft = 1 /\ tokens[position].kind = "Semicolon"
          THEN /\ p_pc' = "done"
               /\ returned' = query_result
               /\ returned'.query.kind = "Select"
          ELSE /\ p_pc' = "done"
               /\ returned' =
                    Returned("err",
                             "Unexpected content after the end of 'SELECT' statement",
                             NoQuery)]_vars

C7_Witness ==
    /\ p_pc = "done"
    /\ returned.st = "ok"
    /\ returned.query.kind = "Select"
    /\ Len(tokens) > 2
    /\ tokens[Len(tokens)].kind = "Semicolon"
    /\ position = Len(tokens) + 1

\* the key of the clause map a clause keyword stores its statement under
ClauseKeyOf ==
    [k \in {"Select", "Where", "Group", "Having", "Order", "Limit", "Offset"} |->
        CASE k = "Select" -> "select"
          [] k = "Where" -> "where"
          [] k = "Group" -> "group"
          [] k = "Having" -> "having"
          [] k = "Order" -> "order"
          [] k = "Limit" -> "limit"
          [] k = "Offset" -> "offset"]

\* the Diagnostic of a clause keyword whose key is in the clause map
AlreadyUsedMessage ==
    [k \in DOMAIN ClauseKeyOf |->
        CASE k = "Select" -> "You already used 'SELECT' statement"
          [] k = "Where" -> "You already used 'WHERE' statement"
          [] k = "Group" -> "'You already used 'GROUP BY' statement"
          [] k = "Having" -> "You already used 'HAVING' statement"
          [] k = "Order" -> "You already used 'ORDER BY' statement"
          [] k = "Limit" -> "You already used 'LIMIT' statement"
          [] k = "Offset" -> "You already used 'OFFSET' statement"]

\* a Diagnostic of parse_select_query is what parse_gql returns
DiagnosticReturned ==
    (p_pc = "finish" /\ query_result.st = "err") => returned' = query_result

C9_HavingNeedsGroup ==
    [][/\ (returned'.st = "ok" /\ "having" \in DOMAIN returned'.query.statements)
             => "group" \in DOMAIN returned'.query.statements
       /\ (/\ p_pc = "select_query"
           /\ token_is(tokens, position, "Having")
           /\ "group" \notin DOMAIN statements)
             => /\ p_pc' = "finish"
                /\ query_result' =
                     Returned("err", "'HAVING' must be used after 'GROUP BY' statement",
                              NoQuery)
                /\ statements' = statements
       /\ DiagnosticReturned]_vars

C9_Witness ==
    /\ p_pc = "done"
    /\ returned.st = "ok"
    /\ "having" \in DOMAIN returned.query.statements
    /\ "group" \in DOMAIN returned.query.statements

\* `LIMIT n, m` starts at token j
ShortcutAt(toks, j) ==
    /\ j + 3 <= Len(toks)
    /\ toks[j].kind = "Limit"
    /\ toks[j + 1].kind = "Integer"
    /\ toks[j + 2].kind = "Comma"
    /\ toks[j + 3].kind = "Integer"

\* the tokens with the `,` of the `LIMIT n, m` at j written as `OFFSET`
Desugar(toks, j) == [toks EXCEPT ![j + 2] = Tok("Offset", "offset")]

\* C10: `LIMIT n, m` gives the clause map of `LIMIT n OFFSET m`, a limit
\* clause with count n and an offset clause with count m, and it is rejected
\* with the already-used-OFFSET Diagnostic when the query has an OFFSET clause
\* of its own, before the `LIMIT n, m` or after it.
C10_LimitOffsetShortcut ==
    [][/\ p_pc' = "done" =>
             \A j \in 1..Len(tokens) :
                ShortcutAt(tokens, j) =>
                   LET sugar_free == parse_gql(Desugar(tokens, j), InitialEnv)
                   IN  /\ returned'.st = sugar_free.st
                       /\ returned'.st = "ok" =>
                            /\ returned'.query = sugar_free.query
                            /\ returned'.query.statements["limit"].count =
                                  IntegerValue[tokens[j + 1].literal]
                            /\ returned'.query.statements["offset"].count =
                                  IntegerValue[tokens[j + 3].literal]
       /\ (/\ p_pc = "select_query"
           /\ ShortcutAt(tokens, position)
           /\ "limit" \notin DOMAIN statements
           /\ "offset" \in DOMAIN statements)
             => query_result' = Returned("err", AlreadyUsedMessage["Offset"], NoQuery)
       /\ (/\ p_pc = "select_query"
           /\ token_is(tokens, position, "Offset")
           /\ \E j \in 1..position : j + 3 < position /\ ShortcutAt(tokens, j))
             => query_result' = Returned("err", AlreadyUsedMessage["Offset"], NoQuery)
       /\ (p_pc = "finish" /\ query_result.msg = AlreadyUsedMessage["Offset"])
             => returned' = query_result]_vars

C10_Witness ==
    /\ p_pc = "done"
    /\ returned.st = "ok"
    /\ \E j \in 1..Len(tokens) : ShortcutAt(tokens, j)
    /\ returned.query.statements["limit"].count = 1
    /\ returned.query.statements["offset"].count = 3


\* ------------------------------------------------------------ query properties
\* the positions of the tokens where an aggregation function is called
AggregationCallSites(toks) ==
    {i \in 1..Len(toks) :
        /\ toks[i].kind = "Symbol"
        /\ toks[i].literal \in DOMAIN AggregationSignatures
        /\ token_is(toks, i + 1, "LeftParen")}

RECURSIVE SubExpressions(_)
\* the nodes of an expression tree
SubExpressions(expr) ==
    {expr} \cup UNION {SubExpressions(expr.args[i]) : i \in 1..Len(expr.args)}

SeqElements(seq) == {seq[i] : i \in 1..Len(seq)}

\* the expressions of the select, group, having and order clauses
ClauseExpressions(stmts) ==
    (IF "select" \in DOMAIN stmts THEN SeqElements(stmts["select"].selected_expr) ELSE {})
    \cup (IF "group" \in DOMAIN stmts THEN SeqElements(stmts["group"].values) ELSE {})
    \cup (IF "having" \in DOMAIN stmts THEN {stmts["having"].condition} ELSE {})
    \cup (IF "order" \in DOMAIN stmts THEN SeqElements(stmts["order"].arguments) ELSE {})

ClauseNodes(stmts) == UNION {SubExpressions(e) : e \in ClauseExpressions(stmts)}

\* the keys of the map of the aggregation clause
AggregationKeys(stmts) ==
    IF "aggregation" \in DOMAIN stmts
    THEN {stmts["aggregation"].aggregations[i].name :
             i \in 1..Len(stmts["aggregation"].aggregations)}
    ELSE {}

\* the keys under which a call of an aggregation function is stored
AggregationFunctionKeys(stmts) ==
    IF "aggregation" \in DOMAIN stmts
    THEN {stmts["aggregation"].aggregations[i].name :
             i \in {j \in 1..Len(stmts["aggregation"].aggregations) :
                       stmts["aggregation"].aggregations[j].kind = "Function"}}
    ELSE {}

SelectReturned == returned.st = "ok" /\ returned.query.kind = "Select"

\* C11: a returned Select query has the aggregation clause exactly when its
\* tokens call an aggregation function; the clause stores one call for every
\* call site; in the select, group, having and order clauses no call of an
\* aggregation function remains, every symbol that names a generated column
\* is a key of the aggregation map, and such a symbol is there when an
\* aggregation is called.
C11_AggregationClause ==
    SelectReturned =>
        /\ ("aggregation" \in DOMAIN returned.query.statements)
              <=> (AggregationCallSites(tokens) # {})
        /\ Cardinality(AggregationFunctionKeys(returned.query.statements))
              = Cardinality(AggregationCallSites(tokens))
        /\ \A n \in ClauseNodes(returned.query.statements) :
              /\ ~(n.node = "Call" /\ n.op \in DOMAIN AggregationSignatures)
              /\ (n.node = "Symbol" /\ n.literal \in SeqElements(GeneratedColumnNames))
                    => n.literal \in AggregationKeys(returned.query.statements)
        /\ (AggregationCallSites(tokens) # {})
              => \E n \in ClauseNodes(returned.query.statements) :
                    /\ n.node = "Symbol"
                    /\ n.literal \in AggregationKeys(returned.query.statements)

\* a query is returned whose HAVING condition is the symbol of an aggregation
C11_Witness ==
    /\ SelectReturned
    /\ "having" \in DOMAIN returned.query.statements
    /\ returned.query.statements["having"].condition.node = "Symbol"
    /\ returned.query.statements["having"].condition.literal
          \in AggregationKeys(returned.query.statements)
    /\ AggregationCallSites(tokens) # {}

\* the titles under which the select list shows the value of an aggregation
AggregationTitles(stmts) ==
    {stmts["select"].selected_expr_titles[i] :
        i \in {j \in 1..Len(stmts["select"].selected_expr) :
                  /\ stmts["select"].selected_expr[j].node = "Symbol"
                  /\ stmts["select"].selected_expr[j].literal \in AggregationKeys(stmts)}}

\* C12: a WHERE condition holding an aggregation call is rejected, so that
\* no returned query has a where clause whose condition refers to an
\* aggregation, neither by the key of the aggregation map nor by the title
\* the select list gives to the aggregated column.
C12_WhereWithoutAggregation ==
    (SelectReturned /\ "where" \in DOMAIN returned.query.statements) =>
        \A n \in SubExpressions(returned.query.statements["where"].condition) :
            n.node = "Symbol" =>
                n.literal \notin (AggregationKeys(returned.query.statements)
                                  \cup AggregationTitles(returned.query.statements))


\* the positions of the global variables that are assigned a value
Assignments(toks) ==
    {i \in 1..Len(toks) :
        /\ toks[i].kind = "GlobalVariable"
        /\ has_token(toks, i + 1)
        /\ is_assignment_operator(toks[i + 1].kind)}

\* the assignments whose value starts with the call of an aggregation function
AggregateAssignments(toks) ==
    {i \in Assignments(toks) : (i + 2) \in AggregationCallSites(toks)}

\* C13: no global variable is defined from a value that contains an
\* aggregate: when every assignment of the query ('SET @v = e' or '@v := e')
\* has an aggregation call as its value, the globals of the environment stay
\* as they were and the query is not returned as parsed.
C13_NoGlobalFromAggregate ==
    (Assignments(tokens) # {} /\ AggregateAssignments(tokens) = Assignments(tokens)) =>
        /\ env.globals = InitialEnv.globals
        /\ returned.st # "ok"

\* the keywords that start a clause after the select list
TailKeywords == {"Where", "Group", "Having", "Order", "Limit", "Offset"}

\* no token of the query is FROM
WithoutFrom(toks) == \A i \in 1..Len(toks) : toks[i].kind # "From"

\* an aggregation function is called in the select list that starts after
\* the SELECT at position p
AggregationInSelectList(toks, p) ==
    \E i \in AggregationCallSites(toks) :
        /\ i > p
        /\ \A j \in (p + 1)..i : toks[j].kind \notin TailKeywords

\* C14: a SELECT statement without FROM does not parse when its select list
\* is '*' or holds an aggregation call: the step that parses the statement
\* ends with the Diagnostic of the case, and no query returned for tokens
\* without FROM has such a select list.
C14_SelectNeedsTable ==
    [][/\ (/\ p_pc = "select_query"
           /\ token_is(tokens, position, "Select")
           /\ WithoutFrom(tokens)
           /\ token_is(tokens, position + 1, "Star"))
             => /\ p_pc' = "finish"
                /\ query_result' =
                     Returned("err", "Expect 'FROM' and table name after 'SELECT *'",
                              NoQuery)
       /\ (/\ p_pc = "select_query"
           /\ token_is(tokens, position, "Select")
           /\ WithoutFrom(tokens)
           /\ AggregationInSelectList(tokens, position))
             => /\ p_pc' = "finish"
                /\ query_result' =
                     Returned("err",
                              "Aggregations functions should be used only with tables",
                              NoQuery)
       /\ (returned'.st = "ok" /\ returned'.query.kind = "Select" /\ WithoutFrom(tokens))
             => /\ ~token_is(tokens, 2, "Star")
                /\ ~AggregationInSelectList(tokens, 1)]_vars

\* the parse of a select list with an aggregation call and no FROM has ended
\* with the Diagnostic
C14_Witness ==
    /\ p_pc = "done"
    /\ WithoutFrom(tokens)
    /\ AggregationInSelectList(tokens, 1)
    /\ returned.st = "err"
    /\ returned.msg = "Aggregations functions should be used only with tables"

UnknownTableSites(toks) ==
    {i \in 2..Len(toks) :
        /\ toks[i].kind = "Symbol"
        /\ toks[i - 1].kind \in {"From", "Join"}
        /\ toks[i].literal \notin DOMAIN TablesFieldsNames}

\* C16: a table name after FROM or after JOIN that is not a table of the
\* schema makes the parser return the Diagnostic 'Unresolved table name'; the
\* columns of a table the schema does not have are never looked up.
C16_UnknownTableDiagnosed ==
    (p_pc = "done" /\ UnknownTableSites(tokens) # {}) =>
        /\ returned.st = "err"
        /\ returned.msg = "Unresolved table name"

\* the name an identifier of a tail clause stands for: its alias when it
\* has one
AliasOf(ctx, literal) ==
    IF literal \in DOMAIN ctx.name_alias_table THEN ctx.name_alias_table[literal]
    ELSE literal

\* C17: an identifier met in a clause after the select list whose name,
\* rewritten to its alias, is not in env.scopes yields the Diagnostic
\* 'Unresolved column or variable name' wherever it stands among the tokens,
\* also when it is the last token. Stated for the identifier that follows
\* WHERE.
C17_UnresolvedNameDiagnosed ==
    [][(/\ p_pc = "select_query"
        /\ token_is(tokens, position, "Where")
        /\ "where" \notin DOMAIN statements
        /\ token_is(tokens, position + 1, "Symbol")
        /\ ~token_is(tokens, position + 2, "LeftParen")
        /\ AliasOf(context, tokens[position + 1].literal) \notin DOMAIN env.scopes)
          => /\ p_pc' = "finish"
             /\ query_result' =
                  Returned("err", "Unresolved column or variable name", NoQuery)]_vars

\* the number of WHEN branches of a Case node: its arguments are the
\* conditions, the values and the default value
CaseBranches(n) == (Len(n.args) - 1) \div 2

\* the Case node has an ELSE branch, Boolean conditions and values, the
\* default value included, of one type
CaseWellTyped(n) ==
    /\ Len(n.args) = 2 * CaseBranches(n) + 1
    /\ \A i \in 1..CaseBranches(n) : n.args[i].ty = "Boolean"
    /\ \A i \in (CaseBranches(n) + 1)..Len(n.args) : n.args[i].ty = n.args[Len(n.args)].ty

\* C18: every CASE expression the parser accepts has an ELSE branch, Boolean
\* conditions and value arms, the ELSE default included, of one type, and a
\* CASE is always answered by a result or a Diagnostic, also when it is made
\* of an ELSE branch alone.
C18_CaseWellTyped ==
    (p_pc = "done" /\ token_is(tokens, 1, "Do") /\ token_is(tokens, 2, "Case")) =>
        /\ returned.st \in {"ok", "err"}
        /\ returned.st = "ok" =>
              \A n \in SubExpressions(returned.query.expression) :
                  n.node = "Case" => CaseWellTyped(n)

\* C19: every Bitwise node the parser builds ('|', '&', '<<', '>>') has both
\* operands of type Integer.
C19_BitwiseOperandsInteger ==
    (returned.st = "ok" /\ returned.query.kind = "Do") =>
        \A n \in SubExpressions(returned.query.expression) :
            n.node = "Bitwise" =>
                \A i \in 1..Len(n.args) : n.args[i].ty = "Integer"

\* the place of a binary operator in the precedence chain, the loosest first
Level ==
    [LogicalOr |-> 1, LogicalAnd |-> 2, BitwiseOr |-> 3, LogicalXor |-> 4,
     BitwiseAnd |-> 5, Equal |-> 6, Greater |-> 7, BitwiseLeftShift |-> 8,
     BitwiseRightShift |-> 8, Plus |-> 9, Minus |-> 9, Star |-> 10]

\* the node and the operator an operator token is parsed to
NodeOf ==
    [LogicalOr |-> <<"Logical", "Or">>, LogicalAnd |-> <<"Logical", "And">>,
     BitwiseOr |-> <<"Bitwise", "Or">>, LogicalXor |-> <<"Logical", "Xor">>,
     BitwiseAnd |-> <<"Bitwise", "And">>, Equal |-> <<"Comparison", "Equal">>,
     Greater |-> <<"Comparison", "Greater">>,
     BitwiseLeftShift |-> <<"Bitwise", "LeftShift">>,
     BitwiseRightShift |-> <<"Bitwise", "RightShift">>,
     Plus |-> <<"Arithmetic", "Plus">>, Minus |-> <<"Arithmetic", "Minus">>,
     Star |-> <<"Arithmetic", "Star">>]

\* the tokens are DO a o1 b o2 c
IsTwoOperators(toks) ==
    /\ Len(toks) = 6
    /\ toks[1].kind = "Do"
    /\ toks[3].kind \in DOMAIN Level
    /\ toks[5].kind \in DOMAIN Level

\* e is the operand written as token t
IsOperand(e, t) == e.args = <<>> /\ e.literal = t.literal

\* e is the operator of token t applied to two operands
IsOperator(e, t) ==
    /\ <<e.node, e.op>> = NodeOf[t.kind]
    /\ Len(e.args) = 2

\* e is a o1 (b o2 c)
GroupedRight(e, toks) ==
    /\ IsOperator(e, toks[3])
    /\ IsOperand(e.args[1], toks[2])
    /\ IsOperator(e.args[2], toks[5])
    /\ IsOperand(e.args[2].args[1], toks[4])
    /\ IsOperand(e.args[2].args[2], toks[6])

\* e is (a o1 b) o2 c
GroupedLeft(e, toks) ==
    /\ IsOperator(e, toks[5])
    /\ IsOperand(e.args[2], toks[6])
    /\ IsOperator(e.args[1], toks[3])
    /\ IsOperand(e.args[1].args[1], toks[2])
    /\ IsOperand(e.args[1].args[2], toks[4])

\* C20: operators bind by the precedence chain: of a o1 b o2 c without
\* parentheses the parser returns a o1 (b o2 c) when o2 stands at a tighter
\* level than o1, and (a o1 b) o2 c otherwise, so that operators of one level
\* group from the left.
C20_Precedence ==
    (returned.st = "ok" /\ IsTwoOperators(tokens)) =>
        IF Level[tokens[5].kind] > Level[tokens[3].kind]
        THEN GroupedRight(returned.query.expression, tokens)
        ELSE GroupedLeft(returned.query.expression, tokens)

\* a - b - c is returned as (a - b) - c
C20_Witness ==
    /\ returned.st = "ok"
    /\ IsTwoOperators(tokens)
    /\ tokens[3].kind = "Minus"
    /\ tokens[5].kind = "Minus"
    /\ GroupedLeft(returned.query.expression, tokens)

\* ------------------------------------------------------------ value properties
\* a method was called and has returned
Called(methods) == value_call.method \in methods /\ value_result # NotCalled

\* C21: for a Date with timestamp t and an Int right operand n, add_op
\* returns the Date of timestamp t + n * 86400 and sub_op the Date of
\* timestamp t - n * 86400; with a right operand that is not an Int both
\* return Err and no value.
C21_DateDays ==
    Called(ArithmeticMethods) =>
        IF value_call.other.kind = "Int"
        THEN /\ value_result.st = "Ok"
             /\ value_result.value.kind = "Date"
             /\ value_result.value.value =
                   IF value_call.method = "add_op"
                   THEN value_call.self.value + value_call.other.value * 86400
                   ELSE value_call.self.value - value_call.other.value * 86400
        ELSE /\ value_result.st = "Err"
             /\ value_result.value = NullValue

\* a negative number of days was subtracted from a Date
C21_Witness ==
    /\ Called({"sub_op"})
    /\ value_call.other.kind = "Int"
    /\ value_call.other.value < 0
    /\ value_result.st = "Ok"
    /\ value_result.value.value > value_call.self.value

\* the types FloatType::equals is true of: Any, Float and the Variants one
\* of whose alternatives is Float
EqualToFloat ==
    {t \in Types :
        \/ t = Type("Any", <<>>)
        \/ t = Type("Float", <<>>)
        \/ t.kind = "Variant" /\ Type("Float", <<>>) \in {t.args[i] : i \in 1..Len(t.args)}}

\* C22: FloatType.equals(t) is true exactly when t is Any, Float or a Variant
\* one of whose alternatives is Float, and false for every other type.
C22_FloatEquals ==
    Called({"equals"}) =>
        /\ value_result.st = "Ok"
        /\ value_result.value.value = (value_call.other \in EqualToFloat)

\* equals was true of a Variant, and the Variant has an alternative that is
\* not Float
C22_Witness ==
    /\ Called({"equals"})
    /\ value_call.other.kind = "Variant"
    /\ \E i \in 1..Len(value_call.other.args) : value_call.other.args[i].kind = "Integer"
    /\ value_result.value.value = TRUE

\* C26: group_lte_op of a Date compares with strict '<': an element equal to
\* the Date is no match; with Any the result is true exactly when some element
\* is strictly greater than the Date, with All exactly when every element is.
C26_GroupLteStrict ==
    (Called({"group_lte_op"}) /\ is_array_of_date(value_call.other)) =>
        LET t == value_call.self.value
            elements == value_call.other.elements
        IN  /\ value_result.st = "Ok"
            /\ value_result.value.kind = "Bool"
            /\ value_result.value.value =
                  IF value_call.group_op = "Any"
                  THEN \E i \in DOMAIN elements : t < elements[i]
                  ELSE \A i \in DOMAIN elements : t < elements[i]

\* an array whose only elements equal the Date: Any gives false
C26_Witness ==
    /\ Called({"group_lte_op"})
    /\ value_call.group_op = "Any"
    /\ is_array_of_date(value_call.other)
    /\ Len(value_call.other.elements) > 0
    /\ \A i \in DOMAIN value_call.other.elements :
          value_call.other.elements[i] = value_call.self.value
    /\ value_result = ValueOk(BoolValue(FALSE))

\* the result of the scalar counterpart of a group operator for Date d and
\* the Date of timestamp e
ScalarCounterpart(method, d, e) ==
    CASE method = "group_eq_op" -> DateValue_eq_op(d, DateValue(e))
      [] method = "group_bang_eq_op" -> DateValue_bang_eq_op(d, DateValue(e))
      [] method = "group_gt_op" -> DateValue_gt_op(d, DateValue(e))
      [] method = "group_gte_op" -> DateValue_gte_op(d, DateValue(e))
      [] method = "group_lt_op" -> DateValue_lt_op(d, DateValue(e))

\* C27: for group_eq_op, group_bang_eq_op, group_gt_op, group_gte_op and
\* group_lt_op on an array of Dates, Any is true exactly when some element
\* satisfies the scalar operator and All exactly when every element does (so
\* All is true and Any false of the empty array); a right operand that is
\* not an array of Dates gives Err and no Bool.
C27_GroupQuantifiers ==
    Called(GroupMethods \ {"group_lte_op"}) =>
        IF is_array_of_date(value_call.other)
        THEN LET elements == value_call.other.elements
                 holds(i) ==
                     ScalarCounterpart(value_call.method, value_call.self,
                                       elements[i]) = ValueOk(BoolValue(TRUE))
             IN  /\ value_result.st = "Ok"
                 /\ value_result.value.kind = "Bool"
                 /\ value_result.value.value =
                       IF value_call.group_op = "Any"
                       THEN \E i \in DOMAIN elements : holds(i)
                       ELSE \A i \in DOMAIN elements : holds(i)
        ELSE /\ value_result.st = "Err"
             /\ value_result.value = NullValue

\* group_gte_op with All is true of an array with an element equal to the
\* Date and an element below it
C27_Witness ==
    /\ Called({"group_gte_op"})
    /\ value_call.group_op = "All"
    /\ is_array_of_date(value_call.other)
    /\ Len(value_call.other.elements) = 2
    /\ value_call.other.elements[1] = value_call.self.value
    /\ value_call.other.elements[2] < value_call.self.value
    /\ value_result = ValueOk(BoolValue(TRUE))

\* ------------------------------------------------------------ engine properties, continued
\* evaluate is about to execute its first clause
StartsExecuting == e_pc = "loop" /\ executed = <<>>

\* C23: when evaluate starts executing clauses, the accumulator consists of
\* exactly one group and that group is empty.
C23_OneEmptyGroup == StartsExecuting => groups = <<<<>>>>

\* C23 (amended): when evaluate starts executing clauses, the accumulator is
\* empty: it holds no group.
C23_NoGroup == StartsExecuting => Len(groups) = 0

\* evaluate is about to execute the first clause of a query that has clauses
C23_Witness ==
    /\ StartsExecuting
    /\ statements_map # {}
    /\ Len(groups) = 0

\* C28: when evaluate returns Ok for a query with a group clause, every group
\* of the result holds at most one row, however many groups there are.
C28_GroupedRowsReduced ==
    (e_pc = "done" /\ eval_result.kind = "Ok" /\ "group" \in statements_map) =>
        \A i \in DOMAIN eval_result.groups : Len(eval_result.groups[i]) <= 1

\* C29: evaluate produces a result only when given at least one repository:
\* with an empty repository list it aborts at the lookup of the first
\* repository, before any clause is executed and whatever clauses the query
\* has, and returns neither Ok nor Err.
C29_NeedsRepository ==
    /\ (repos = 0 /\ e_pc # "start") =>
          /\ e_pc = "done"
          /\ eval_result = PanicResult
          /\ executed = <<>>
    /\ eval_result.kind \in {"Ok", "Err"} => repos >= 1

\* evaluate has aborted on an empty repository list for a query with clauses
C29_Witness ==
    /\ repos = 0
    /\ e_pc = "done"
    /\ eval_result = PanicResult
    /\ "select" \in statements_map
    /\ "where" \in statements_map

\* ------------------------------------------------------------ query properties, continued
RECURSIVE FirstTableWith(_, _, _)
\* the first table from index i on whose schema has the column; the first
\* table of all when none has it
FirstTableWith(tables, column, i) ==
    IF i > Len(tables) THEN tables[1]
    ELSE IF column \in SeqElements(TablesFieldsNames[tables[i]]) THEN tables[i]
    ELSE FirstTableWith(tables, column, i + 1)

\* C24: every hidden column is listed under exactly one table: the first
\* selected table whose schema contains it, or the first table when none
\* does, also when the column is met more than once.
C24_HiddenUnderFirstTable ==
    (p_pc = "done" /\ SelectReturned) =>
        \A t \in DOMAIN returned.query.hidden_selections :
            \A c \in SeqElements(returned.query.hidden_selections[t]) :
                t = FirstTableWith(context.selected_tables, c, 1)

\* where parse_do_query starts the expression of `DO ...`
DoExpressionStart == [pos |-> 2, context |-> DefaultContext, env |-> env]

\* the tokens are DO a | b o2 c, a is of type Integer, and the right operand
\* of `|` is parsed to an expression that is not of type Integer and is not
\* the end of the tokens
OrRightOperandNotInteger ==
    /\ IsTwoOperators(tokens)
    /\ tokens[3].kind = "BitwiseOr"
    /\ LET lhs == parse_logical_xor_expression(tokens, DoExpressionStart)
       IN  /\ lhs.st = "ok"
           /\ lhs.pos = 3
           /\ lhs.expr.ty = "Integer"
           /\ LET rhs == parse_logical_xor_expression(tokens, Advance(lhs))
              IN  /\ rhs.st = "ok"
                  /\ rhs.expr.ty # "Integer"
                  /\ has_token(tokens, rhs.pos)

\* the type of the right operand of `|` in DO a | b o2 c
OrRightOperandType ==
    parse_logical_xor_expression(tokens, [DoExpressionStart EXCEPT !.pos = 4]).expr.ty

\* C25: when the right operand of `|` is not of type Integer, the
\* type-mismatch Diagnostic of parse_bitwise_or_expression reports the type
\* of the right operand as the actual type.
C25_OrReportsRightType ==
    (p_pc = "done" /\ returned.st = "err" /\ OrRightOperandNotInteger) =>
        LET r == parse_bitwise_or_expression(tokens, DoExpressionStart)
        IN  /\ r.st = "err"
            /\ r.msg = "Type mismatch"
            /\ returned.msg = r.msg
            /\ r.got = OrRightOperandType

\* no two places of the sequence hold the same element
PairwiseDistinct(seq) ==
    \A i \in DOMAIN seq : \A j \in DOMAIN seq : seq[i] = seq[j] => i = j

\* C30: after a successful parse of a select list the output column titles
\* are pairwise distinct and context.selected_fields holds no name twice:
\* the same field twice, a field aliased to its own name, and a field named
\* as an alias given earlier in the list are rejected.
C30_TitlesDistinct ==
    (/\ p_pc = "done"
     /\ SelectReturned
     /\ returned.query.statements["select"].selected_expr_titles # <<>>) =>
        /\ PairwiseDistinct(returned.query.statements["select"].selected_expr_titles)
        /\ PairwiseDistinct(context.selected_fields)

====
